---- MODULE Spec2Model ----
(***************************************************************************)
(* Streaming event consumption of the WebLens frontend: the four read      *)
(* loops (ChatBot.handleSubmit, IdeaDetails.fetchDetails,                  *)
(* SiteInfo.fetchSiteItems, Ideator.fetchIdeas) and the component state    *)
(* they fold the decoded events into.                                      *)
(*                                                                         *)
(* A response body is a sequence of bytes.  Bytes are written as short     *)
(* strings: the six bytes of the frame prefix, the line feed, the braces   *)
(* of a JSON object, one byte per JSON field group (the tag bytes below),  *)
(* ASCII letters and digits for field values, and the two bytes of one     *)
(* two-byte UTF-8 character.                                               *)
(***************************************************************************)
EXTENDS Integers, Sequences, FiniteSets, TLC

(***************************************************************************)
(* Bounds of the model.                                                    *)
(***************************************************************************)
\* Frames (pieces) a response body is built from, at most.
MaxFrames == 2
\* Actions of the user on one component instance (navigations, saves,
\* changes of the item limit and of the images setting), at most.
MaxUserActions == 2
\* Item requests one component instance issues, at most.
MaxFetches == 2
\* Console entries about rejected prompt saves, at most (the user may save
\* and the server may reject without end).
MaxSaveErrors == 1
\* Ideas one IdeaDetails instance is shown for, one after the other, at most.
MaxIdeas == 3

(***************************************************************************)
(* Bytes and characters.                                                   *)
(***************************************************************************)
LF == "LF"
\* The two bytes of a two-byte UTF-8 character, the character they decode
\* to, and U+FFFD, which TextDecoder emits for a malformed sequence.
LeadByte == "xC3"
ContByte == "xA9"
EAcute == "U+00E9"
Replacement == "U+FFFD"

\* The literal 'data: ' tested by startsWith and removed by slice(6).
Prefix == <<"d", "a", "t", "a", ":", " ">>
PrefixLen == 6

\* Whitespace JSON.parse skips around a value.
JSONWhitespace == {LF, " "}

\* The characters a title or a content string is made of; a digit stands
\* for the other fields of an item (description, icon), so that two items
\* of one title can differ.
TitleChars == {"A", "B", EAcute, Replacement}
OtherChars == {"1", "2"}
ValueChars == TitleChars \cup OtherChars

\* One byte per JSON field group: "T" an object with a title and no type
\* (an item), the others an object whose type field is the named one.
\* The type of an object without type field, and the value of a field the
\* object does not have.
Undefined == "undefined"
NoValue == <<Undefined>>
TypeOfTag ==
  [ T |-> Undefined, S |-> "stop", C |-> "content", M |-> "metadata",
    V |-> "visualization", Q |-> "suggested_questions", X |-> "error",
    P |-> "press_release", p |-> "press_release_start", q |-> "press_release_end",
    O |-> "social_media", o |-> "social_media_start", u |-> "social_media_end",
    R |-> "customer_reviews", r |-> "customer_reviews_start",
    w |-> "customer_reviews_end", Z |-> "unknown_type" ]
Tags == DOMAIN TypeOfTag

(***************************************************************************)
(* String operations of the read loops.                                    *)
(***************************************************************************)
\* s.slice(n): the string without its first n characters.
slice(s, n) == SubSeq(s, n + 1, Len(s))

\* s.startsWith(p)
startsWith(s, p) == Len(s) >= Len(p) /\ SubSeq(s, 1, Len(p)) = p

\* TextDecoder.decode(value) without the stream option: every call decodes
\* its chunk alone, so a multi-byte sequence cut by the chunk's end or
\* start decodes to U+FFFD.
RECURSIVE decode(_)
decode(bytes) ==
  IF bytes = <<>> THEN <<>>
  ELSE IF Head(bytes) = LeadByte
    THEN IF Len(bytes) >= 2 /\ bytes[2] = ContByte
         THEN <<EAcute>> \o decode(slice(bytes, 2))
         ELSE <<Replacement>> \o decode(Tail(bytes))
    ELSE IF Head(bytes) = ContByte
      THEN <<Replacement>> \o decode(Tail(bytes))
      ELSE <<Head(bytes)>> \o decode(Tail(bytes))

\* Index of the first occurrence of sep in s, 0 when there is none.
indexOf(s, sep) ==
  LET hits == { i \in 1..(Len(s) - Len(sep) + 1) : SubSeq(s, i, i + Len(sep) - 1) = sep }
  IN IF hits = {} THEN 0 ELSE CHOOSE i \in hits : \A j \in hits : i <= j

\* s.split(sep): the pieces between the separators, left to right; a
\* string without separator is the only piece.
RECURSIVE split(_, _)
split(s, sep) ==
  LET i == indexOf(s, sep)
  IN IF i = 0 THEN <<s>>
     ELSE <<SubSeq(s, 1, i - 1)>> \o split(slice(s, i + Len(sep) - 1), sep)

\* s with leading and trailing JSON whitespace removed.
RECURSIVE trimLeft(_)
trimLeft(s) ==
  IF s # <<>> /\ Head(s) \in JSONWhitespace THEN trimLeft(Tail(s)) ELSE s
RECURSIVE trimRight(_)
trimRight(s) ==
  IF s # <<>> /\ s[Len(s)] \in JSONWhitespace
  THEN trimRight(SubSeq(s, 1, Len(s) - 1)) ELSE s

\* JSON.parse(s): the value of an object text '{' fields '}', ok = FALSE
\* where JSON.parse throws a SyntaxError.  The parsed object carries its
\* type field, its title field and its content (error) field.
ParseFailure == [ok |-> FALSE]
JSONParse(s) ==
  LET t == trimRight(trimLeft(s))
      n == Len(t)
      inner == SubSeq(t, 2, n - 1)
      val == Tail(inner)
  IN IF n < 2 \/ t[1] # "{" \/ t[n] # "}" THEN ParseFailure
     ELSE IF inner = <<>>
       THEN [ok |-> TRUE, type |-> Undefined, title |-> NoValue, content |-> NoValue]
     ELSE IF Head(inner) \notin Tags \/ \E i \in 1..Len(val) : val[i] \notin ValueChars
       THEN ParseFailure
     ELSE IF Head(inner) = "T"
       THEN [ok |-> TRUE, type |-> Undefined,
             title |-> SelectSeq(val, LAMBDA c : c \in TitleChars), content |-> val]
     ELSE [ok |-> TRUE, type |-> TypeOfTag[Head(inner)], title |-> NoValue, content |-> val]

(***************************************************************************)
(* Response bodies.                                                        *)
(***************************************************************************)
\* 'data: ' followed by a JSON text.
Frame(json) == Prefix \o json

JsonItemA == <<"{", "T", "A", "}">>
JsonItemA1 == <<"{", "T", "A", "1", "}">>
JsonItemB == <<"{", "T", "B", "}">>
JsonItemE == <<"{", "T", LeadByte, ContByte, "}">>
JsonStop == <<"{", "S", "}">>
JsonBroken == <<"{", "T", "A">>
\* Six characters that are not the prefix, as a server sending ' data:'
\* would produce.
NotPrefix == <<" ", "d", "a", "t", "a", ":">>

\* The lines an item-list response is built from: well-formed item frames
\* (two of one title, one with a two-byte character), a stop frame, a
\* frame whose JSON is cut, a line without the prefix, and a line whose
\* first six characters are not the prefix.
ItemLines ==
  { Frame(JsonItemA), Frame(JsonItemA1), Frame(JsonItemB), Frame(JsonItemE),
    Frame(JsonStop), Frame(JsonBroken), JsonItemB, NotPrefix \o JsonItemB }

\* The concatenations of at most n lines of L, each followed by sep.
RECURSIVE Terminated(_, _, _)
Terminated(L, sep, n) ==
  IF n = 0 THEN {<<>>}
  ELSE LET shorter == Terminated(L, sep, n - 1)
       IN shorter \cup { l \o sep \o b : l \in L, b \in shorter }

\* The bodies of at most n lines of L: every line but possibly the last is
\* followed by sep (a server may omit the separator after the last frame).
Bodies(L, sep, n) ==
  Terminated(L, sep, n)
    \cup { b \o l : b \in Terminated(L, sep, n - 1), l \in L }

ItemSeparator == <<LF>>
RichItemBodies == Bodies(ItemLines, ItemSeparator, MaxFrames)
\* The bodies of the component specification: two items without a stop
\* frame, a stop frame (with a space before its JSON, which JSON.parse
\* skips) before an item that has no separator after it, and two items of
\* one title, the second without separator.
SmallItemBodies ==
  { Frame(JsonItemA) \o ItemSeparator \o Frame(JsonItemB) \o ItemSeparator,
    Prefix \o <<" ">> \o JsonStop \o ItemSeparator \o Frame(JsonItemA1),
    Frame(JsonItemA) \o ItemSeparator \o Frame(JsonItemA1) }

(***************************************************************************)
(* State.                                                                  *)
(***************************************************************************)
VARIABLES
  \* App and its routes
  comp,             \* the component mounted: SiteInfo, Ideator, ChatBot, IdeaDetails
  siteName,         \* prop siteName (SiteInfo) / ideaName (Ideator): the tab shown
  catalogs,         \* App state catalogs: the entries [id, prompt], in order;
                    \* the id stands for the name and the route as well
  productIdeators,  \* App state productIdeators, likewise
  saves,            \* PUT requests of handleCatalogPromptSave / handleIdeatorPromptSave in flight
  deletes,          \* DELETE requests of handleDeleteConfirm in flight, each with the
                    \* cards its closure holds
  requests,         \* the POST and DELETE requests in flight of the handlers of
                    \* App and of handleDeleteTabConfirm, oldest first
  isAddingCatalog, newCatalogName, isAddingIdeator, newIdeatorName,
  \* SiteInfo / Ideator
  prompt, savedPrompt, cards, loading, error, itemLimit, generateImages,
  fetchedRef,
  fetches,          \* the invocations of fetchSiteItems / fetchIdeas, oldest first;
                    \* beside the locals of the code an invocation records
                    \* received, the text decoded so far, and events, the
                    \* parsed values its branches were run on
  userActions,      \* the number of actions the user has taken
  \* ChatBot
  messages, input, isLoading, suggestedQuestions,
  submits,          \* the invocations of handleSubmit, oldest first
  \* IdeaDetails (its error and fetchedRef are the variables above)
  ideaItem, pressRelease, socialMediaPost, customerReviews,
  loadingPressRelease, loadingSocialMedia, loadingReviews,
  ideaItemFetch,    \* the invocations of fetchIdeaItem, oldest first; the last
                    \* one is for the ideaTitle of the route
  details,          \* the invocations of fetchDetails, oldest first
  \* the browser console
  console

drawerVars ==
  <<requests, isAddingCatalog, newCatalogName, isAddingIdeator, newIdeatorName>>
appVars ==
  <<comp, siteName, catalogs, productIdeators, saves, deletes, userActions,
    drawerVars>>
itemVars ==
  <<prompt, savedPrompt, cards, loading, error, itemLimit, generateImages,
    fetchedRef, fetches>>
chatVars == <<messages, input, isLoading, suggestedQuestions, submits>>
detailState ==
  <<ideaItem, pressRelease, socialMediaPost, customerReviews,
    loadingPressRelease, loadingSocialMedia, loadingReviews>>
detailVars == <<detailState, ideaItemFetch, details>>
vars == <<appVars, itemVars, chatVars, detailVars, console>>

Null == "null"
Tabs == {"c1", "c2"}
PromptInputs == {"p1", "p2"}
ItemLimits == {"12", "6"}

\* Console messages.
WarnIncomplete == "Incomplete JSON, waiting for more data"
ErrorFinal == "Error parsing final SSE data:"
ErrorFetching == "Error fetching site items:"
ErrorUpdating == "Error updating catalog:"
\* Error messages.
FailedToFetch == "Failed to fetch site items"
ReadError == "network error"

(***************************************************************************)
(* SiteInfo and Ideator: rendering and effects.                            *)
(***************************************************************************)
\* catalogs.map(...) / productIdeators.map(...) inside <Routes>: the
\* initialPrompt of the route element of each id; of two entries with one
\* route the first one matches.
routes(list) ==
  [id \in {list[k].id : k \in DOMAIN list} |->
     list[CHOOSE k \in DOMAIN list :
            list[k].id = id /\ \A j \in 1..(k - 1) : list[j].id # id].prompt]

\* The route elements the mounted component is rendered from.
Parent == routes(IF comp = "Ideator" THEN productIdeators ELSE catalogs)

\* The props and state of the component as one record.
Component ==
  [ comp |-> comp, siteName |-> siteName, initialPrompt |-> Parent[siteName],
    prompt |-> prompt, savedPrompt |-> savedPrompt, cards |-> cards,
    loading |-> loading, error |-> error, itemLimit |-> itemLimit,
    generateImages |-> generateImages, fetchedRef |-> fetchedRef,
    fetches |-> fetches ]

\* The effect on [siteName, initialPrompt]; Ideator's does not touch
\* fetchedRef.
resetEffect(c) ==
  [c EXCEPT !.prompt = c.initialPrompt, !.savedPrompt = c.initialPrompt,
            !.cards = <<>>,
            !.fetchedRef = IF c.comp = "SiteInfo" THEN FALSE ELSE @]

\* fetchSiteItems / fetchIdeas up to the await of fetch(): the two early
\* returns, then the resets and the request.
newFetch(c) ==
  [ pc |-> "fetch", itemType |-> c.siteName, prompt |-> c.savedPrompt,
    body |-> <<>>, pos |-> 0, received |-> <<>>, partialData |-> <<>>,
    events |-> <<>> ]
\* fetchSiteItems without setError(null).
fetchSiteItemsKeepsError(c) ==
  IF c.savedPrompt = "" THEN c
  ELSE IF c.fetchedRef THEN c
  ELSE [c EXCEPT !.fetchedRef = TRUE, !.loading = TRUE,
                 !.cards = <<>>, !.fetches = Append(@, newFetch(c))]
fetchSiteItems(c) ==
  IF c.savedPrompt = "" THEN c
  ELSE IF c.fetchedRef THEN c
  ELSE [c EXCEPT !.fetchedRef = TRUE, !.loading = TRUE, !.error = Null,
                 !.cards = <<>>, !.fetches = Append(@, newFetch(c))]

\* Ideator assigns fetchedRef.current = false in its function body, that is
\* at every render.
renderBody(c) ==
  IF c.comp = "Ideator" THEN [c EXCEPT !.fetchedRef = FALSE] ELSE c

\* The renders and effects that follow a change from pre to post, until the
\* component is stable: the reset effect when siteName or initialPrompt
\* changed, then the fetch effect when savedPrompt, itemLimit or
\* generateImages differ from those of the last render.
render(pre, post) ==
  LET r0 == renderBody(post)
      r1 == IF <<r0.siteName, r0.initialPrompt>> # <<pre.siteName, pre.initialPrompt>>
            THEN renderBody(resetEffect(r0)) ELSE r0
      r2 == IF <<r1.savedPrompt, r1.itemLimit, r1.generateImages>>
                # <<pre.savedPrompt, pre.itemLimit, pre.generateImages>>
            THEN renderBody(fetchSiteItems(r1)) ELSE r1
  IN r2

\* The component after mounting: both effects run once.
mount(c) == renderBody(fetchSiteItems(resetEffect(renderBody(c))))

\* The variables of the component take the values of c.
Commit(c) ==
  /\ Len(c.fetches) <= MaxFetches
  /\ siteName' = c.siteName
  /\ prompt' = c.prompt
  /\ savedPrompt' = c.savedPrompt
  /\ cards' = c.cards
  /\ loading' = c.loading
  /\ error' = c.error
  /\ itemLimit' = c.itemLimit
  /\ generateImages' = c.generateImages
  /\ fetchedRef' = c.fetchedRef
  /\ fetches' = c.fetches

\* The component of a route element before its first render.
newComponent(kind, tab, initialPrompt) ==
  [ comp |-> kind, siteName |-> tab, initialPrompt |-> initialPrompt,
    prompt |-> initialPrompt, savedPrompt |-> initialPrompt,
    cards |-> <<>>, loading |-> FALSE, error |-> Null,
    itemLimit |-> IF kind = "SiteInfo" THEN "12" ELSE "6",
    generateImages |-> FALSE, fetchedRef |-> FALSE, fetches |-> <<>> ]

\* No item-list component is mounted.
NoComponent ==
  [ siteName |-> "c1", prompt |-> "", savedPrompt |-> "", cards |-> <<>>,
    loading |-> FALSE, error |-> Null, itemLimit |-> "12",
    generateImages |-> FALSE, fetchedRef |-> FALSE, fetches |-> <<>> ]

\* App renders with the lists cats and ideators: the mounted item-list
\* component is rendered from its route element, and where no route element
\* is left for it the route "*" navigates to "/", the ChatBot.
AppRender(cats, ideators) ==
  IF comp \notin {"SiteInfo", "Ideator"}
  THEN UNCHANGED <<comp, siteName, itemVars>>
  ELSE LET r == routes(IF comp = "Ideator" THEN ideators ELSE cats)
       IN IF siteName \in DOMAIN r
          THEN /\ Commit(render(Component,
                    [Component EXCEPT !.initialPrompt = r[siteName]]))
               /\ UNCHANGED comp
          ELSE /\ comp' = "ChatBot"
               /\ Commit(NoComponent)

(***************************************************************************)
(* SiteInfo and Ideator: the user and the parent.                          *)
(***************************************************************************)
\* The user acts on the mounted item-list component.
UserActs ==
  /\ comp \in {"SiteInfo", "Ideator"}
  /\ userActions < MaxUserActions
  /\ userActions' = userActions + 1

\* The user opens another tab: the route element of that tab is rendered
\* into the same component instance.
Navigate(tab) ==
  /\ UserActs
  /\ tab # siteName
  /\ Commit(render(Component,
       [Component EXCEPT !.siteName = tab, !.initialPrompt = Parent[tab]]))
  /\ UNCHANGED <<comp, catalogs, productIdeators, saves, deletes, console, chatVars,
                 detailVars, drawerVars>>

\* handlePromptChange(value) followed by handleSave: the user types value
\* and saves it.  PromptInputs holds trimmed, non-blank text.
handleSave(value) ==
  /\ UserActs
  /\ saves' = saves \cup {[handler |-> IF comp = "Ideator"
                                         THEN "handleIdeatorPromptSave"
                                         ELSE "handleCatalogPromptSave",
                             id |-> siteName, prompt |-> value]}
  /\ Commit(render(Component,
       [Component EXCEPT !.savedPrompt = value, !.prompt = "",
                         !.fetchedRef = FALSE]))
  /\ UNCHANGED <<comp, catalogs, productIdeators, deletes, console, chatVars,
                 detailVars, drawerVars>>

handleItemLimitChange(value) ==
  /\ UserActs
  /\ value # itemLimit
  /\ Commit(render(Component,
       [Component EXCEPT !.itemLimit = value, !.fetchedRef = FALSE]))
  /\ UNCHANGED <<comp, catalogs, productIdeators, saves, deletes, console, chatVars,
                 detailVars, drawerVars>>

handleGenerateImagesChange ==
  /\ UserActs
  /\ Commit(render(Component,
       [Component EXCEPT !.generateImages = ~generateImages,
                         !.fetchedRef = FALSE]))
  /\ UNCHANGED <<comp, catalogs, productIdeators, saves, deletes, console, chatVars,
                 detailVars, drawerVars>>

\* prevCatalogs.map(catalog => catalog.id === catalogId
\*   ? { ...catalog, prompt, generateImages } : catalog)
withPrompt(list, id, value) ==
  [k \in DOMAIN list |->
     IF list[k].id = id THEN [list[k] EXCEPT !.prompt = value] ELSE list[k]]

\* handleCatalogPromptSave / handleIdeatorPromptSave after the PUT answered
\* ok: the entry takes the saved prompt, and the component is rendered with
\* the props built from the new list.
handleCatalogPromptSave(req) ==
  /\ req \in saves
  /\ saves' = saves \ {req}
  /\ IF req.handler = "handleIdeatorPromptSave"
     THEN /\ productIdeators' = withPrompt(productIdeators, req.id, req.prompt)
          /\ UNCHANGED catalogs
     ELSE /\ catalogs' = withPrompt(catalogs, req.id, req.prompt)
          /\ UNCHANGED productIdeators
  /\ AppRender(catalogs', productIdeators')
  /\ UNCHANGED <<deletes, userActions, console, chatVars, detailVars,
                 drawerVars>>

\* The PUT is rejected or answers with a non-ok status: caught and logged.
handleCatalogPromptSaveFailed(req) ==
  /\ req \in saves
  /\ Cardinality({k \in 1..Len(console) : console[k] = ErrorUpdating}) < MaxSaveErrors
  /\ saves' = saves \ {req}
  /\ console' = Append(console, ErrorUpdating)
  /\ UNCHANGED <<comp, siteName, catalogs, productIdeators, deletes, userActions, itemVars,
                 chatVars, detailVars, drawerVars>>

\* handleDeleteClick(card) followed by handleDeleteConfirm up to the await
\* of fetch(): the DELETE request leaves with the title of the card; the
\* closure of handleDeleteConfirm holds the cards of the render it was
\* created in.
ErrorDeleting == "Error deleting item:"
handleDeleteConfirm(k) ==
  /\ UserActs
  /\ k \in DOMAIN cards
  /\ deletes' = deletes \cup {[title |-> cards[k].title, cards |-> cards]}
  /\ UNCHANGED <<comp, siteName, catalogs, productIdeators, saves, itemVars,
                 chatVars, detailVars, console, drawerVars>>

\* cards.filter(card => card.title !== cardToDelete.title)
withoutTitle(list, title) == SelectSeq(list, LAMBDA card : card.title # title)

\* The DELETE answered ok: SiteInfo filters the cards of the closure,
\* Ideator filters the list the updater is given.
deleteResponse(req) ==
  /\ req \in deletes
  /\ deletes' = deletes \ {req}
  /\ cards' = IF comp = "SiteInfo" THEN withoutTitle(req.cards, req.title)
                                   ELSE withoutTitle(cards, req.title)
  /\ UNCHANGED <<comp, siteName, catalogs, productIdeators, saves, userActions,
                 prompt, savedPrompt, loading, error, itemLimit, generateImages,
                 fetchedRef, fetches, chatVars, detailVars, console,
                 drawerVars>>

\* The DELETE is rejected or answers with a non-ok status: logged.
deleteFailed(req) ==
  /\ req \in deletes
  /\ deletes' = deletes \ {req}
  /\ console' = Append(console, ErrorDeleting)
  /\ UNCHANGED <<comp, siteName, catalogs, productIdeators, saves, userActions,
                 itemVars, chatVars, detailVars, drawerVars>>

(***************************************************************************)
(* SiteInfo.fetchSiteItems and Ideator.fetchIdeas: the read loop.          *)
(***************************************************************************)
\* An updater that appends whatever the list holds: the variant C12 has to
\* tell apart from appendCard.
appendAlways(prevCards, data) == Append(prevCards, data)

\* The setCards / setIdeas updater: append unless the title is in the list.
appendCard(prevCards, data) ==
  IF \E j \in 1..Len(prevCards) : prevCards[j].title = data.title
  THEN prevCards
  ELSE Append(prevCards, data)

\* One line of the for loop, applied to acc = [cards, loading, console,
\* events]; events records the parsed values handed to the branches.
itemLine(acc, line) ==
  IF ~startsWith(line, Prefix) THEN acc
  ELSE LET data == JSONParse(slice(line, PrefixLen))
       IN IF ~data.ok
          THEN [acc EXCEPT !.console = Append(@, WarnIncomplete)]
          ELSE IF data.type = "stop"
            THEN [acc EXCEPT !.loading = FALSE, !.events = Append(@, data)]
            ELSE [acc EXCEPT !.cards = appendCard(@, data),
                             !.events = Append(@, data)]

RECURSIVE itemLines(_, _)
itemLines(acc, lines) ==
  IF lines = <<>> THEN acc
  ELSE itemLines(itemLine(acc, Head(lines)), Tail(lines))

\* A leftover block that appends without looking for the title: the
\* variant C13 has to tell apart from itemFinal.
itemFinalAppends(acc, partialData) ==
  IF partialData = <<>> THEN acc
  ELSE LET data == JSONParse(slice(partialData, PrefixLen))
       IN IF ~data.ok
          THEN [acc EXCEPT !.console = Append(@, ErrorFinal)]
          ELSE IF data.type # "stop"
            THEN [acc EXCEPT !.cards = Append(@, data),
                             !.events = Append(@, data)]
            ELSE acc

\* itemFinal that parses the leftover and drops what it parsed.
itemFinalSkips(acc, partialData) ==
  IF partialData = <<>> THEN acc
  ELSE LET data == JSONParse(slice(partialData, PrefixLen))
       IN IF ~data.ok
          THEN [acc EXCEPT !.console = Append(@, ErrorFinal)]
          ELSE acc

\* The block after the loop: the leftover is sliced and parsed without a
\* test of its prefix, and a stop object is skipped.
itemFinal(acc, partialData) ==
  IF partialData = <<>> THEN acc
  ELSE LET data == JSONParse(slice(partialData, PrefixLen))
       IN IF ~data.ok
          THEN [acc EXCEPT !.console = Append(@, ErrorFinal)]
          ELSE IF data.type # "stop"
            THEN [acc EXCEPT !.cards = appendCard(@, data),
                             !.events = Append(@, data)]
            ELSE acc

\* lines.pop() || ''
pop(lines) == lines[Len(lines)]
withoutLast(lines) == SubSeq(lines, 1, Len(lines) - 1)

\* One pass of the while loop over a chunk: the new partialData and acc.
itemChunk(acc, partialData, chunk) ==
  LET lines == split(partialData \o decode(chunk), ItemSeparator)
  IN [ partialData |-> pop(lines), acc |-> itemLines(acc, withoutLast(lines)) ]

Acc(i) ==
  [ cards |-> cards, loading |-> loading, console |-> console,
    events |-> fetches[i].events ]

\* An invocation that has returned: its locals are gone.
finished(f, pc, events) ==
  [f EXCEPT !.pc = pc, !.body = <<>>, !.pos = 0, !.received = <<>>,
            !.partialData = <<>>, !.events = events]

\* The response arrives with an ok status.
fetchResponse(i, bodies) ==
  /\ fetches[i].pc = "fetch"
  /\ \E body \in bodies :
       fetches' = [fetches EXCEPT ![i].pc = "read", ![i].body = body]
  /\ UNCHANGED <<appVars, prompt, savedPrompt, cards, loading, error,
                 itemLimit, generateImages, fetchedRef, console, chatVars,
                 detailVars>>

\* fetchCatch that also empties the list.
fetchCatchClears(i, message) ==
  /\ fetches[i].pc \in {"fetch", "read"}
  /\ message = (IF fetches[i].pc = "fetch" THEN FailedToFetch ELSE ReadError)
  /\ fetches' = [fetches EXCEPT ![i] = finished(@, "failed", @.events)]
  /\ console' = Append(console, ErrorFetching)
  /\ error' = message
  /\ loading' = FALSE
  /\ cards' = <<>>
  /\ UNCHANGED <<appVars, prompt, savedPrompt, itemLimit,
                 generateImages, fetchedRef, chatVars, detailVars>>

\* fetch() is rejected, the status is not ok, or reader.read() is rejected:
\* the catch block.
fetchCatch(i, message) ==
  /\ fetches[i].pc \in {"fetch", "read"}
  /\ message = (IF fetches[i].pc = "fetch" THEN FailedToFetch ELSE ReadError)
  /\ fetches' = [fetches EXCEPT ![i] = finished(@, "failed", @.events)]
  /\ console' = Append(console, ErrorFetching)
  /\ error' = message
  /\ loading' = FALSE
  /\ UNCHANGED <<appVars, prompt, savedPrompt, cards, itemLimit,
                 generateImages, fetchedRef, chatVars, detailVars>>

\* reader.read() delivers the next size bytes of the body.
readChunk(i, size) ==
  /\ fetches[i].pc = "read"
  /\ size \in 1..(Len(fetches[i].body) - fetches[i].pos)
  /\ LET f == fetches[i]
         chunk == SubSeq(f.body, f.pos + 1, f.pos + size)
     IN \E r \in {itemChunk(Acc(i), f.partialData, chunk)} :
        /\ fetches' = [fetches EXCEPT ![i].pos = f.pos + size,
                                      ![i].received = @ \o decode(chunk),
                                      ![i].partialData = r.partialData,
                                      ![i].events = r.acc.events]
        /\ cards' = r.acc.cards
        /\ loading' = r.acc.loading
        /\ console' = r.acc.console
  /\ UNCHANGED <<appVars, prompt, savedPrompt, error, itemLimit,
                 generateImages, fetchedRef, chatVars, detailVars>>

\* readDone without the setLoading(false) that follows the leftover block:
\* the variant C9 has to tell apart from readDone.
readDoneStillLoading(i) ==
  /\ fetches[i].pc = "read"
  /\ fetches[i].pos = Len(fetches[i].body)
  /\ \E acc \in {itemFinal(Acc(i), fetches[i].partialData)} :
        /\ fetches' = [fetches EXCEPT ![i] = finished(@, "ended", acc.events)]
        /\ cards' = acc.cards
        /\ console' = acc.console
        /\ loading' = loading
  /\ UNCHANGED <<appVars, prompt, savedPrompt, error, itemLimit,
                 generateImages, fetchedRef, chatVars, detailVars>>

\* reader.read() reports done: the leftover is processed and loading ends.
readDone(i) ==
  /\ fetches[i].pc = "read"
  /\ fetches[i].pos = Len(fetches[i].body)
  /\ \E acc \in {itemFinal(Acc(i), fetches[i].partialData)} :
        /\ fetches' = [fetches EXCEPT ![i] = finished(@, "ended", acc.events)]
        /\ cards' = acc.cards
        /\ console' = acc.console
        /\ loading' = FALSE
  /\ UNCHANGED <<appVars, prompt, savedPrompt, error, itemLimit,
                 generateImages, fetchedRef, chatVars, detailVars>>

(***************************************************************************)
(* ChatBot.handleSubmit.                                                   *)
(***************************************************************************)
Greeting == [text |-> <<"Hello!">>, isUser |-> FALSE, sources |-> NoValue,
             visualization |-> NoValue]
Questions == {<<"q">>}
ErrorParsing == "Error parsing SSE data:"
ErrorResponse == "Error fetching response:"
ResponseComplete == "Response complete"
ChatSeparator == <<LF, LF>>

\* questionOverride || input, the empty override standing for none.
questionToSend(questionOverride) ==
  IF questionOverride # <<>> THEN questionOverride ELSE input

\* handleSubmit without the test of isLoading.
handleSubmitAlways(questionOverride) ==
  /\ comp = "ChatBot"
  /\ IF trimLeft(trimRight(questionToSend(questionOverride))) = <<>>
     THEN UNCHANGED <<messages, input, isLoading, suggestedQuestions, submits>>
     ELSE /\ messages' = Append(messages,
               [text |-> questionToSend(questionOverride), isUser |-> TRUE,
                sources |-> NoValue, visualization |-> NoValue])
          /\ input' = <<>>
          /\ isLoading' = TRUE
          /\ suggestedQuestions' = <<>>
          /\ submits' = Append(submits,
               [ pc |-> "fetch", body |-> <<>>, pos |-> 0, received |-> <<>>,
                 events |-> <<>>,
                 botMessage |-> [text |-> <<>>, isUser |-> FALSE, sources |-> NoValue,
                                 visualization |-> NoValue] ])
  /\ UNCHANGED <<appVars, itemVars, detailVars, console>>

\* handleSubmit up to the await of fetch(): it returns when the question
\* is blank or a response is loading.
handleSubmit(questionOverride) ==
  /\ comp = "ChatBot"
  /\ IF trimLeft(trimRight(questionToSend(questionOverride))) = <<>> \/ isLoading
     THEN UNCHANGED <<messages, input, isLoading, suggestedQuestions, submits>>
     ELSE /\ messages' = Append(messages,
               [text |-> questionToSend(questionOverride), isUser |-> TRUE,
                sources |-> NoValue, visualization |-> NoValue])
          /\ input' = <<>>
          /\ isLoading' = TRUE
          /\ suggestedQuestions' = <<>>
          /\ submits' = Append(submits,
               [ pc |-> "fetch", body |-> <<>>, pos |-> 0, received |-> <<>>,
                 events |-> <<>>,
                 botMessage |-> [text |-> <<>>, isUser |-> FALSE, sources |-> NoValue,
                                 visualization |-> NoValue] ])
  /\ UNCHANGED <<appVars, itemVars, detailVars, console>>

\* The user types into the text field, which is disabled while a response
\* is loading.
setInput(value) ==
  /\ comp = "ChatBot"
  /\ ~isLoading
  /\ input' = value
  /\ UNCHANGED <<appVars, itemVars, detailVars, console, messages, isLoading,
                 suggestedQuestions, submits>>

\* The user clicks the chip of a suggested question; the chips are shown
\* also while a response is loading.
handleSuggestedQuestionClick(k) ==
  /\ k \in DOMAIN suggestedQuestions
  /\ handleSubmit(<<suggestedQuestions[k]>>)

\* A setMessages updater that replaces the last message whatever it is.
showBotMessageReplaces(prev, botMessage) ==
  Append(SubSeq(prev, 1, Len(prev) - 1), botMessage)

\* The setMessages updater: the bot message follows the user message it
\* answers, or replaces the last message.
showBotMessage(prev, botMessage) ==
  IF prev[Len(prev)].isUser
  THEN Append(prev, botMessage)
  ELSE Append(SubSeq(prev, 1, Len(prev) - 1), botMessage)

\* Branches in which a content event replaces the text of the answer: the
\* variant C14 has to tell apart from chatEvent.
chatEventLastContent(acc, data) ==
  CASE data.type = "metadata" ->
         [acc EXCEPT !.botMessage.sources = data.content]
    [] data.type = "content" ->
         [acc EXCEPT !.botMessage.text = data.content]
    [] data.type = "visualization" ->
         [acc EXCEPT !.botMessage.visualization = data.content]
    [] data.type = "suggested_questions" ->
         [acc EXCEPT !.suggestedQuestions = data.content]
    [] data.type = "stop" ->
         [acc EXCEPT !.console = Append(@, ResponseComplete)]
    [] OTHER -> acc

\* The branches on data.type.
chatEvent(acc, data) ==
  CASE data.type = "metadata" ->
         [acc EXCEPT !.botMessage.sources = data.content]
    [] data.type = "content" ->
         [acc EXCEPT !.botMessage.text = @ \o data.content]
    [] data.type = "visualization" ->
         [acc EXCEPT !.botMessage.visualization = data.content]
    [] data.type = "suggested_questions" ->
         [acc EXCEPT !.suggestedQuestions = data.content]
    [] data.type = "stop" ->
         [acc EXCEPT !.console = Append(@, ResponseComplete)]
    [] OTHER -> acc

\* One line of the for loop, applied to acc = [botMessage, messages,
\* suggestedQuestions, console, events].
chatLine(acc, line) ==
  IF ~startsWith(line, Prefix) THEN acc
  ELSE LET data == JSONParse(slice(line, PrefixLen))
       IN IF ~data.ok
          THEN [acc EXCEPT !.console = Append(@, ErrorParsing)]
          ELSE LET a == chatEvent(acc, data)
               IN [a EXCEPT !.messages = showBotMessage(@, a.botMessage),
                            !.events = Append(@, data)]

RECURSIVE chatLines(_, _)
chatLines(acc, lines) ==
  IF lines = <<>> THEN acc
  ELSE chatLines(chatLine(acc, Head(lines)), Tail(lines))

\* One pass of the while loop: the chunk is decoded and split on its own.
chatChunk(acc, chunk) == chatLines(acc, split(decode(chunk), ChatSeparator))

ChatAcc(i) ==
  [ botMessage |-> submits[i].botMessage, messages |-> messages,
    suggestedQuestions |-> suggestedQuestions, console |-> console,
    events |-> submits[i].events ]

\* An invocation that has returned: its locals are gone.
submitted(f, pc) ==
  [f EXCEPT !.pc = pc, !.body = <<>>, !.pos = 0, !.received = <<>>,
            !.botMessage = [text |-> <<>>, isUser |-> FALSE,
                            sources |-> NoValue, visualization |-> NoValue]]

\* fetch() resolves; the status is not looked at.
chatResponse(i, bodies) ==
  /\ submits[i].pc = "fetch"
  /\ \E body \in bodies :
       submits' = [submits EXCEPT ![i].pc = "read", ![i].body = body]
  /\ UNCHANGED <<appVars, itemVars, detailVars, console, messages, input,
                 isLoading, suggestedQuestions>>

\* chatCatch without the finally block.
chatCatchStillLoading(i) ==
  /\ submits[i].pc \in {"fetch", "read"}
  /\ submits' = [submits EXCEPT ![i] = submitted(@, "failed")]
  /\ console' = Append(console, ErrorResponse)
  /\ UNCHANGED <<appVars, itemVars, detailVars, messages, input, isLoading,
                 suggestedQuestions>>

\* fetch() or reader.read() is rejected: catch, then finally.
chatCatch(i) ==
  /\ submits[i].pc \in {"fetch", "read"}
  /\ submits' = [submits EXCEPT ![i] = submitted(@, "failed")]
  /\ console' = Append(console, ErrorResponse)
  /\ isLoading' = FALSE
  /\ UNCHANGED <<appVars, itemVars, detailVars, messages, input,
                 suggestedQuestions>>

chatRead(i, size) ==
  /\ submits[i].pc = "read"
  /\ size \in 1..(Len(submits[i].body) - submits[i].pos)
  /\ LET f == submits[i]
         chunk == SubSeq(f.body, f.pos + 1, f.pos + size)
     IN \E acc \in {chatChunk(ChatAcc(i), chunk)} :
        /\ submits' = [submits EXCEPT ![i].pos = f.pos + size,
                                      ![i].received = @ \o decode(chunk),
                                      ![i].botMessage = acc.botMessage,
                                      ![i].events = acc.events]
        /\ messages' = acc.messages
        /\ suggestedQuestions' = acc.suggestedQuestions
        /\ console' = acc.console
  /\ UNCHANGED <<appVars, itemVars, detailVars, input, isLoading>>

\* reader.read() reports done: the loop is left, finally runs.
chatDone(i) ==
  /\ submits[i].pc = "read"
  /\ submits[i].pos = Len(submits[i].body)
  /\ submits' = [submits EXCEPT ![i] = submitted(@, "ended")]
  /\ isLoading' = FALSE
  /\ UNCHANGED <<appVars, itemVars, detailVars, console, messages, input,
                 suggestedQuestions>>

JsonContentA == <<"{", "C", "A", "}">>
JsonContentB == <<"{", "C", "B", "}">>
JsonContentE == <<"{", "C", LeadByte, ContByte, "}">>
JsonEmpty == <<"{", "}">>
\* The frames a chat response is built from: content (one with a two-byte
\* character), metadata, visualization, suggested questions, stop, an
\* object without type, a frame whose JSON is cut and one without prefix.
ChatLines ==
  { Frame(JsonContentA), Frame(JsonContentB), Frame(JsonContentE),
    Frame(<<"{", "M", "1", "}">>), Frame(<<"{", "V", "2", "}">>),
    Frame(<<"{", "Q", "A", "}">>), Frame(JsonStop), Frame(JsonEmpty),
    Frame(<<"{", "C", "A">>), JsonContentB }
RichChatBodies == Bodies(ChatLines, ChatSeparator, MaxFrames)

(***************************************************************************)
(* IdeaDetails.                                                            *)
(***************************************************************************)
\* The ideas of the route parameter ideaTitle, and the idea item the
\* backend returns for one.
IdeaTitles == {<<"A">>, <<"B">>}
IdeaItem(ideaTitle) == [title |-> ideaTitle, description |-> <<"1">>]
\* The initial state null of ideaItem.
NoIdeaItem == [null |-> TRUE]
FailedIdeaItem == "Failed to fetch idea item"
NotOk == "Network response was not ok"
ErrorIdeaItem == "Error fetching idea item:"
ErrorDetails == "Error fetching idea details:"
WarnUnknown == "Unknown event type"
DetailSeparator == <<LF, LF>>

\* fetchDetails without the test of fetchedRef.current.
fetchDetailsEveryTime(item, ref, invocations) ==
  IF item = NoIdeaItem
  THEN [fetchedRef |-> ref, details |-> invocations]
  ELSE [ fetchedRef |-> TRUE,
         details |-> Append(invocations,
           [ pc |-> "fetch", title |-> item.title, body |-> <<>>, pos |-> 0,
             received |-> <<>>, events |-> <<>>, pressReleaseBuffer |-> <<>>,
             socialMediaBuffer |-> <<>> ]) ]

\* fetchDetails up to the await of fetch(): the route parameters are
\* present; it returns when a request was made or no idea item is loaded.
fetchDetails(item, ref, invocations) ==
  IF ref \/ item = NoIdeaItem
  THEN [fetchedRef |-> ref, details |-> invocations]
  ELSE [ fetchedRef |-> TRUE,
         details |-> Append(invocations,
           [ pc |-> "fetch", title |-> item.title, body |-> <<>>, pos |-> 0,
             received |-> <<>>, events |-> <<>>, pressReleaseBuffer |-> <<>>,
             socialMediaBuffer |-> <<>> ]) ]

\* The route parameters change while IdeaDetails is shown (the user jumps
\* in the browser history from one idea to another): the same instance is
\* rendered with the new ideaTitle and the effect on [backendUrl,
\* ideatorName, ideaTitle] runs fetchIdeaItem.  The effect of fetchDetails
\* either does not run or returns at its guard, because ideaItem is the
\* one of the render before.
showIdea(ideaTitle) ==
  /\ comp = "IdeaDetails"
  /\ Len(ideaItemFetch) < MaxIdeas
  /\ ideaTitle # ideaItemFetch[Len(ideaItemFetch)].title
  /\ ideaItemFetch' = Append(ideaItemFetch, [pc |-> "fetch", title |-> ideaTitle])
  /\ UNCHANGED <<appVars, chatVars, itemVars, detailState, details, console>>

\* fetchIdeaItem after the response: setIdeaItem, then the effect on
\* [backendUrl, ideatorName, ideaItem] runs fetchDetails.
fetchIdeaItemOk(k) ==
  /\ comp = "IdeaDetails"
  /\ ideaItemFetch[k].pc = "fetch"
  /\ ideaItemFetch' = [ideaItemFetch EXCEPT ![k].pc = "ended"]
  /\ ideaItem' = IdeaItem(ideaItemFetch[k].title)
  /\ LET r == fetchDetails(IdeaItem(ideaItemFetch[k].title), fetchedRef, details)
     IN fetchedRef' = r.fetchedRef /\ details' = r.details
  /\ UNCHANGED <<appVars, chatVars, console, prompt, savedPrompt, cards,
                 loading, error, itemLimit, generateImages, fetches,
                 pressRelease, socialMediaPost, customerReviews,
                 loadingPressRelease, loadingSocialMedia, loadingReviews>>

fetchIdeaItemCatch(k) ==
  /\ comp = "IdeaDetails"
  /\ ideaItemFetch[k].pc = "fetch"
  /\ ideaItemFetch' = [ideaItemFetch EXCEPT ![k].pc = "failed"]
  /\ console' = Append(console, ErrorIdeaItem)
  /\ error' = FailedIdeaItem
  /\ UNCHANGED <<appVars, chatVars, prompt, savedPrompt, cards, loading,
                 itemLimit, generateImages, fetchedRef, fetches, detailState,
                 details>>

\* detailEvent with a press_release case that shows the content of the event
\* alone.
detailEventLastContent(acc, data) ==
  CASE data.type = "press_release_start" -> [acc EXCEPT !.loadingPressRelease = TRUE]
    [] data.type = "press_release" ->
         [acc EXCEPT !.pressReleaseBuffer = @ \o data.content,
                     !.pressRelease = data.content]
    [] data.type = "press_release_end" -> [acc EXCEPT !.loadingPressRelease = FALSE]
    [] data.type = "social_media_start" -> [acc EXCEPT !.loadingSocialMedia = TRUE]
    [] data.type = "social_media" ->
         [acc EXCEPT !.socialMediaBuffer = @ \o data.content,
                     !.socialMediaPost = acc.socialMediaBuffer \o data.content]
    [] data.type = "social_media_end" -> [acc EXCEPT !.loadingSocialMedia = FALSE]
    [] data.type = "customer_reviews_start" -> [acc EXCEPT !.loadingReviews = TRUE]
    [] data.type = "customer_reviews" -> [acc EXCEPT !.customerReviews = data.content]
    [] data.type = "customer_reviews_end" -> [acc EXCEPT !.loadingReviews = FALSE]
    [] data.type = "error" -> [acc EXCEPT !.console = Append(@, ErrorParsing)]
    [] data.type = "stop" -> acc
    [] OTHER -> [acc EXCEPT !.console = Append(@, WarnUnknown)]

\* detailEvent with a customer_reviews case that adds the content of the
\* event to the list.
detailEventAppendsReviews(acc, data) ==
  CASE data.type = "press_release_start" -> [acc EXCEPT !.loadingPressRelease = TRUE]
    [] data.type = "press_release" ->
         [acc EXCEPT !.pressReleaseBuffer = @ \o data.content,
                     !.pressRelease = acc.pressReleaseBuffer \o data.content]
    [] data.type = "press_release_end" -> [acc EXCEPT !.loadingPressRelease = FALSE]
    [] data.type = "social_media_start" -> [acc EXCEPT !.loadingSocialMedia = TRUE]
    [] data.type = "social_media" ->
         [acc EXCEPT !.socialMediaBuffer = @ \o data.content,
                     !.socialMediaPost = acc.socialMediaBuffer \o data.content]
    [] data.type = "social_media_end" -> [acc EXCEPT !.loadingSocialMedia = FALSE]
    [] data.type = "customer_reviews_start" -> [acc EXCEPT !.loadingReviews = TRUE]
    [] data.type = "customer_reviews" -> [acc EXCEPT !.customerReviews = @ \o data.content]
    [] data.type = "customer_reviews_end" -> [acc EXCEPT !.loadingReviews = FALSE]
    [] data.type = "error" -> [acc EXCEPT !.console = Append(@, ErrorParsing)]
    [] data.type = "stop" -> acc
    [] OTHER -> [acc EXCEPT !.console = Append(@, WarnUnknown)]

\* detailEvent with a press_release_end case that ends the loading of all
\* three sections.
detailEventEndsAll(acc, data) ==
  CASE data.type = "press_release_start" -> [acc EXCEPT !.loadingPressRelease = TRUE]
    [] data.type = "press_release" ->
         [acc EXCEPT !.pressReleaseBuffer = @ \o data.content,
                     !.pressRelease = acc.pressReleaseBuffer \o data.content]
    [] data.type = "press_release_end" ->
         [acc EXCEPT !.loadingPressRelease = FALSE, !.loadingSocialMedia = FALSE,
                     !.loadingReviews = FALSE]
    [] data.type = "social_media_start" -> [acc EXCEPT !.loadingSocialMedia = TRUE]
    [] data.type = "social_media" ->
         [acc EXCEPT !.socialMediaBuffer = @ \o data.content,
                     !.socialMediaPost = acc.socialMediaBuffer \o data.content]
    [] data.type = "social_media_end" -> [acc EXCEPT !.loadingSocialMedia = FALSE]
    [] data.type = "customer_reviews_start" -> [acc EXCEPT !.loadingReviews = TRUE]
    [] data.type = "customer_reviews" -> [acc EXCEPT !.customerReviews = data.content]
    [] data.type = "customer_reviews_end" -> [acc EXCEPT !.loadingReviews = FALSE]
    [] data.type = "error" -> [acc EXCEPT !.console = Append(@, ErrorParsing)]
    [] data.type = "stop" -> acc
    [] OTHER -> [acc EXCEPT !.console = Append(@, WarnUnknown)]

\* The switch on data.type; acc holds the state setters' targets, the two
\* buffers of the invocation and the console.  The error case throws
\* inside the try block around JSON.parse, so the catch of that block
\* takes it.
detailEvent(acc, data) ==
  CASE data.type = "press_release_start" -> [acc EXCEPT !.loadingPressRelease = TRUE]
    [] data.type = "press_release" ->
         [acc EXCEPT !.pressReleaseBuffer = @ \o data.content,
                     !.pressRelease = acc.pressReleaseBuffer \o data.content]
    [] data.type = "press_release_end" -> [acc EXCEPT !.loadingPressRelease = FALSE]
    [] data.type = "social_media_start" -> [acc EXCEPT !.loadingSocialMedia = TRUE]
    [] data.type = "social_media" ->
         [acc EXCEPT !.socialMediaBuffer = @ \o data.content,
                     !.socialMediaPost = acc.socialMediaBuffer \o data.content]
    [] data.type = "social_media_end" -> [acc EXCEPT !.loadingSocialMedia = FALSE]
    [] data.type = "customer_reviews_start" -> [acc EXCEPT !.loadingReviews = TRUE]
    [] data.type = "customer_reviews" -> [acc EXCEPT !.customerReviews = data.content]
    [] data.type = "customer_reviews_end" -> [acc EXCEPT !.loadingReviews = FALSE]
    [] data.type = "error" -> [acc EXCEPT !.console = Append(@, ErrorParsing)]
    [] data.type = "stop" -> acc
    [] OTHER -> [acc EXCEPT !.console = Append(@, WarnUnknown)]

detailLine(acc, line) ==
  IF ~startsWith(line, Prefix) THEN acc
  ELSE LET data == JSONParse(slice(line, PrefixLen))
       IN IF ~data.ok
          THEN [acc EXCEPT !.console = Append(@, ErrorParsing)]
          ELSE [detailEvent(acc, data) EXCEPT !.events = Append(@, data)]

RECURSIVE detailLines(_, _)
detailLines(acc, lines) ==
  IF lines = <<>> THEN acc
  ELSE detailLines(detailLine(acc, Head(lines)), Tail(lines))

detailChunk(acc, chunk) == detailLines(acc, split(decode(chunk), DetailSeparator))

DetailAcc(i) ==
  [ pressRelease |-> pressRelease, socialMediaPost |-> socialMediaPost,
    customerReviews |-> customerReviews,
    loadingPressRelease |-> loadingPressRelease,
    loadingSocialMedia |-> loadingSocialMedia,
    loadingReviews |-> loadingReviews, console |-> console,
    events |-> details[i].events,
    pressReleaseBuffer |-> details[i].pressReleaseBuffer,
    socialMediaBuffer |-> details[i].socialMediaBuffer ]

\* An invocation that has returned: its locals are gone.
detailed(f, pc) ==
  [f EXCEPT !.pc = pc, !.body = <<>>, !.pos = 0, !.received = <<>>,
            !.pressReleaseBuffer = <<>>, !.socialMediaBuffer = <<>>]

detailsResponse(i, bodies) ==
  /\ details[i].pc = "fetch"
  /\ \E body \in bodies :
       details' = [details EXCEPT ![i].pc = "read", ![i].body = body]
  /\ UNCHANGED <<appVars, chatVars, itemVars, detailState, ideaItemFetch, console>>

\* fetch() is rejected, the status is not ok, or reader.read() is rejected:
\* the outer catch block.
detailsCatch(i) ==
  /\ details[i].pc \in {"fetch", "read"}
  /\ details' = [details EXCEPT ![i] = detailed(@, "failed")]
  /\ console' = Append(console, ErrorDetails)
  /\ error' = (IF details[i].pc = "fetch" THEN NotOk ELSE ReadError)
  /\ UNCHANGED <<appVars, chatVars, prompt, savedPrompt, cards, loading,
                 itemLimit, generateImages, fetchedRef, fetches, detailState,
                 ideaItemFetch>>

detailsRead(i, size) ==
  /\ details[i].pc = "read"
  /\ size \in 1..(Len(details[i].body) - details[i].pos)
  /\ LET f == details[i]
         chunk == SubSeq(f.body, f.pos + 1, f.pos + size)
     IN \E acc \in {detailChunk(DetailAcc(i), chunk)} :
        /\ details' = [details EXCEPT ![i].pos = f.pos + size,
                         ![i].received = @ \o decode(chunk),
                         ![i].events = acc.events,
                         ![i].pressReleaseBuffer = acc.pressReleaseBuffer,
                         ![i].socialMediaBuffer = acc.socialMediaBuffer]
        /\ pressRelease' = acc.pressRelease
        /\ socialMediaPost' = acc.socialMediaPost
        /\ customerReviews' = acc.customerReviews
        /\ loadingPressRelease' = acc.loadingPressRelease
        /\ loadingSocialMedia' = acc.loadingSocialMedia
        /\ loadingReviews' = acc.loadingReviews
        /\ console' = acc.console
  /\ UNCHANGED <<appVars, chatVars, itemVars, ideaItem, ideaItemFetch>>

detailsDone(i) ==
  /\ details[i].pc = "read"
  /\ details[i].pos = Len(details[i].body)
  /\ details' = [details EXCEPT ![i] = detailed(@, "ended")]
  /\ UNCHANGED <<appVars, chatVars, itemVars, detailState, ideaItemFetch, console>>

\* The frames an idea-detail response is built from: one of every type
\* of the switch, an unknown type, a frame whose JSON is cut and one
\* without prefix.
DetailLines ==
  { Frame(<<"{", t, "}">>) : t \in {"p", "q", "o", "u", "r", "w", "S", "Z"} }
    \cup { Frame(<<"{", "P", "A", "}">>), Frame(<<"{", "P", "B", "}">>),
           Frame(<<"{", "O", "A", "}">>), Frame(<<"{", "R", "1", "}">>),
           Frame(<<"{", "X", "A", "}">>), Frame(<<"{", "P", "A">>),
           <<"{", "P", "B", "}">> }
RichDetailBodies == Bodies(DetailLines, DetailSeparator, MaxFrames)

(***************************************************************************)
(* App: the drawer, the lists and the routes.                              *)
(***************************************************************************)
\* newRoute of handleAddCatalog / handleAddProductIdeator, as the id the
\* route stands for: the name in lower case, "-" in place of white space.
newRoute(name) ==
  IF name = <<"c", "1">> THEN "c1" ELSE IF name = <<"c", "2">> THEN "c2" ELSE "-"

\* navigate(route): the component of the route element of id in the list
\* of its kind.  A component of the same kind is rendered again with the new
\* props, another one is replaced by a new component, and without a
\* route element the route "*" navigates to "/".
navigate(kind, id, cats, ideators) ==
  LET r == routes(IF kind = "Ideator" THEN ideators ELSE cats)
  IN IF id \notin DOMAIN r
     THEN /\ comp' = "ChatBot"
          /\ Commit(NoComponent)
     ELSE /\ comp' = kind
          /\ IF comp = kind
             THEN Commit(render(Component,
                    [Component EXCEPT !.siteName = id, !.initialPrompt = r[id]]))
             ELSE Commit(mount(newComponent(kind, id, r[id])))

\* The user takes one more action, on the drawer.
UserTypes ==
  /\ userActions < MaxUserActions
  /\ userActions' = userActions + 1

\* The user opens the name field of the catalogs, types name and presses
\* Enter: handleAddCatalog up to the await of fetch().
handleAddCatalog(name) ==
  /\ UserTypes
  /\ isAddingCatalog' = TRUE
  /\ newCatalogName' = name
  /\ requests' =
       IF trimRight(trimLeft(name)) # <<>>
       THEN Append(requests,
              [handler |-> "handleAddCatalog", id |-> newRoute(name)])
       ELSE requests
  /\ UNCHANGED <<comp, siteName, catalogs, productIdeators, saves, deletes,
                 isAddingIdeator, newIdeatorName, itemVars, chatVars,
                 detailVars, console>>

handleAddProductIdeator(name) ==
  /\ UserTypes
  /\ isAddingIdeator' = TRUE
  /\ newIdeatorName' = name
  /\ requests' =
       IF trimRight(trimLeft(name)) # <<>>
       THEN Append(requests,
              [handler |-> "handleAddProductIdeator", id |-> newRoute(name)])
       ELSE requests
  /\ UNCHANGED <<comp, siteName, catalogs, productIdeators, saves, deletes,
                 isAddingCatalog, newCatalogName, itemVars, chatVars,
                 detailVars, console>>

\* The requests in flight without the k-th.
answered(k) == SubSeq(requests, 1, k - 1) \o SubSeq(requests, k + 1, Len(requests))

\* handleAddCatalog after the POST answered ok with the entry newCatalog.
addCatalogResponse(k, newCatalog) ==
  /\ k \in DOMAIN requests
  /\ requests[k].handler = "handleAddCatalog"
  /\ requests' = answered(k)
  /\ catalogs' = Append(catalogs, newCatalog)
  /\ newCatalogName' = <<>>
  /\ isAddingCatalog' = FALSE
  /\ navigate("SiteInfo", requests[k].id, catalogs', productIdeators)
  /\ UNCHANGED <<productIdeators, saves, deletes, userActions,
                 isAddingIdeator, newIdeatorName, chatVars, detailVars,
                 console>>

\* handleAddProductIdeator after the POST answered ok.
addProductIdeatorResponse(k, newIdeator) ==
  /\ k \in DOMAIN requests
  /\ requests[k].handler = "handleAddProductIdeator"
  /\ requests' = answered(k)
  /\ productIdeators' = Append(productIdeators, newIdeator)
  /\ newIdeatorName' = <<>>
  /\ isAddingIdeator' = FALSE
  /\ navigate("Ideator", requests[k].id, catalogs, productIdeators')
  /\ UNCHANGED <<catalogs, saves, deletes, userActions, isAddingCatalog,
                 newCatalogName, chatVars, detailVars, console>>

\* handleDeleteTabConfirm of SiteInfo / handleDeleteIdeatorConfirm of
\* Ideator up to the await of fetch(): the user confirms the deletion of
\* the tab shown.
handleDeleteTabConfirm ==
  /\ UserActs
  /\ requests' = Append(requests,
       [handler |-> IF comp = "Ideator" THEN "handleDeleteIdeatorConfirm"
                    ELSE "handleDeleteTabConfirm",
        id |-> siteName])
  /\ UNCHANGED <<comp, siteName, catalogs, productIdeators, saves, deletes,
                 isAddingCatalog, newCatalogName, isAddingIdeator,
                 newIdeatorName, itemVars, chatVars, detailVars, console>>

\* The DELETE of the component answered ok: onTabDelete / onDelete runs
\* handleTabDelete / handleIdeatorDelete of App up to the await of fetch(),
\* then the component navigates to "/".
deleteTabResponse(k) ==
  /\ k \in DOMAIN requests
  /\ requests[k].handler \in {"handleDeleteTabConfirm", "handleDeleteIdeatorConfirm"}
  /\ requests' = Append(answered(k),
       [handler |-> IF requests[k].handler = "handleDeleteIdeatorConfirm"
                    THEN "handleIdeatorDelete" ELSE "handleTabDelete",
        id |-> requests[k].id])
  /\ comp' = "ChatBot"
  /\ Commit(NoComponent)
  /\ UNCHANGED <<catalogs, productIdeators, saves, deletes, userActions,
                 isAddingCatalog, newCatalogName, isAddingIdeator,
                 newIdeatorName, chatVars, detailVars, console>>

\* prevCatalogs.filter(catalog => catalog.id !== catalogId)
withoutId(list, id) == SelectSeq(list, LAMBDA entry : entry.id # id)

\* handleTabDelete filtering both lists.
handleTabDeleteBoth(k) ==
  /\ k \in DOMAIN requests
  /\ requests[k].handler = "handleTabDelete"
  /\ requests' = answered(k)
  /\ catalogs' = withoutId(catalogs, requests[k].id)
  /\ productIdeators' = withoutId(productIdeators, requests[k].id)
  /\ AppRender(catalogs', productIdeators')
  /\ UNCHANGED <<saves, deletes, userActions, isAddingCatalog,
                 newCatalogName, isAddingIdeator, newIdeatorName, chatVars,
                 detailVars, console>>

\* handleTabDelete after the DELETE answered ok.
handleTabDelete(k) ==
  /\ k \in DOMAIN requests
  /\ requests[k].handler = "handleTabDelete"
  /\ requests' = answered(k)
  /\ catalogs' = withoutId(catalogs, requests[k].id)
  /\ AppRender(catalogs', productIdeators)
  /\ UNCHANGED <<productIdeators, saves, deletes, userActions,
                 isAddingCatalog, newCatalogName, isAddingIdeator,
                 newIdeatorName, chatVars, detailVars, console>>

\* handleIdeatorDelete after the DELETE answered ok.
handleIdeatorDelete(k) ==
  /\ k \in DOMAIN requests
  /\ requests[k].handler = "handleIdeatorDelete"
  /\ requests' = answered(k)
  /\ productIdeators' = withoutId(productIdeators, requests[k].id)
  /\ AppRender(catalogs, productIdeators')
  /\ UNCHANGED <<catalogs, saves, deletes, userActions, isAddingCatalog,
                 newCatalogName, isAddingIdeator, newIdeatorName, chatVars,
                 detailVars, console>>

\* The first argument of console.error in the catch block, or in the else
\* branch, of each handler.
CatchMessages ==
  [ handleAddCatalog |-> {"Error adding catalog:"},
    handleAddProductIdeator |-> {"Error adding product ideator:"},
    handleTabDelete |-> {"Error deleting catalog:"},
    handleIdeatorDelete |-> {"Error deleting product ideator:"},
    handleDeleteTabConfirm |-> {"Failed to delete tab", "Error deleting tab:"},
    handleDeleteIdeatorConfirm |->
      {"Failed to delete ideator", "Error deleting ideator:"} ]

\* The request is rejected or answers with a non-ok status: the handler
\* logs and returns.
requestCatch(k, message) ==
  /\ k \in DOMAIN requests
  /\ message \in CatchMessages[requests[k].handler]
  /\ requests' = answered(k)
  /\ console' = Append(console, message)
  /\ UNCHANGED <<comp, siteName, catalogs, productIdeators, saves, deletes,
                 userActions, isAddingCatalog, newCatalogName,
                 isAddingIdeator, newIdeatorName, itemVars, chatVars,
                 detailVars>>

(***************************************************************************)
(* Specifications.                                                         *)
(***************************************************************************)
\* A component instance after mounting on one of the tabs; c1 is a new
\* catalog without a prompt, c2 has one.
InitialList == <<[id |-> "c1", prompt |-> ""], [id |-> "c2", prompt |-> "p1"]>>
InitComponent(kind, tab) ==
  mount(newComponent(kind, tab, routes(InitialList)[tab]))

\* The drawer with no name field open and no request of App in flight.
DrawerIdle ==
  /\ requests = <<>>
  /\ isAddingCatalog = FALSE
  /\ newCatalogName = <<>>
  /\ isAddingIdeator = FALSE
  /\ newIdeatorName = <<>>

ItemsIdle ==
  /\ siteName = "c1"
  /\ catalogs = InitialList
  /\ productIdeators = InitialList
  /\ saves = {}
  /\ deletes = {}
  /\ DrawerIdle
  /\ userActions = 0
  /\ prompt = ""
  /\ savedPrompt = ""
  /\ cards = <<>>
  /\ loading = FALSE
  /\ itemLimit = "12"
  /\ generateImages = FALSE
  /\ fetches = <<>>

ChatIdle ==
  /\ messages = <<Greeting>>
  /\ input = <<>>
  /\ isLoading = FALSE
  /\ suggestedQuestions = <<>>
  /\ submits = <<>>

DetailsIdle ==
  /\ ideaItem = NoIdeaItem
  /\ pressRelease = <<>>
  /\ socialMediaPost = <<>>
  /\ customerReviews = <<>>
  /\ loadingPressRelease = TRUE
  /\ loadingSocialMedia = TRUE
  /\ loadingReviews = TRUE
  /\ ideaItemFetch = <<>>
  /\ details = <<>>

InitItemsOn(tabs) ==
  /\ comp \in {"SiteInfo", "Ideator"}
  /\ catalogs = InitialList
  /\ productIdeators = InitialList
  /\ saves = {}
  /\ deletes = {}
  /\ DrawerIdle
  /\ userActions = 0
  /\ console = <<>>
  /\ ChatIdle
  /\ DetailsIdle
  /\ \E tab \in tabs :
       LET c == InitComponent(comp, tab)
       IN /\ siteName = tab
          /\ prompt = c.prompt
          /\ savedPrompt = c.savedPrompt
          /\ cards = c.cards
          /\ loading = c.loading
          /\ error = c.error
          /\ itemLimit = c.itemLimit
          /\ generateImages = c.generateImages
          /\ fetchedRef = c.fetchedRef
          /\ fetches = c.fetches

\* ChatBot after mounting.
InitChat ==
  /\ comp = "ChatBot"
  /\ ItemsIdle
  /\ error = Null
  /\ fetchedRef = FALSE
  /\ DetailsIdle
  /\ console = <<>>
  /\ ChatIdle

\* IdeaDetails after mounting: fetchIdeaItem awaits its response, and
\* fetchDetails has returned because no idea item is loaded.
InitDetails ==
  /\ comp = "IdeaDetails"
  /\ ItemsIdle
  /\ ChatIdle
  /\ console = <<>>
  /\ error = Null
  /\ fetchedRef = FALSE
  /\ ideaItem = NoIdeaItem
  /\ pressRelease = <<>>
  /\ socialMediaPost = <<>>
  /\ customerReviews = <<>>
  /\ loadingPressRelease = TRUE
  /\ loadingSocialMedia = TRUE
  /\ loadingReviews = TRUE
  /\ ideaItemFetch = <<[pc |-> "fetch", title |-> <<"A">>]>>
  /\ details = <<>>

Transport(bodies, sizes) ==
  \E i \in 1..Len(fetches) :
    \/ fetchResponse(i, bodies)
    \/ \E m \in {FailedToFetch, ReadError} : fetchCatch(i, m)
    \/ \E size \in sizes : readChunk(i, size)
    \/ readDone(i)

\* One item request on a mounted component, the user idle: every body of
\* RichItemBodies, cut into chunks at every byte.
MaxBodyLen == MaxFrames * 18
InitItemStream == InitItemsOn({"c2"})
NextItemStream == Transport(RichItemBodies, 1..MaxBodyLen)
SpecItemStream == InitItemStream /\ [][NextItemStream]_vars

\* The component with its user and its parent.
\* The component specification delivers a body in chunks of this size, which
\* cuts every body after its first frame; the second chunk of the second
\* and of the third body is the leftover at its end.
ChunkSizes == {11}
InitItems == InitItemsOn(Tabs)
NextItems ==
  \/ \E tab \in Tabs : Navigate(tab)
  \/ \E value \in PromptInputs : handleSave(value)
  \/ \E value \in ItemLimits : handleItemLimitChange(value)
  \/ handleGenerateImagesChange
  \/ \E req \in saves : handleCatalogPromptSave(req)
  \/ \E req \in saves : handleCatalogPromptSaveFailed(req)
  \/ \E k \in DOMAIN cards : handleDeleteConfirm(k)
  \/ \E req \in deletes : deleteResponse(req)
  \/ \E req \in deletes : deleteFailed(req)
  \/ Transport(SmallItemBodies, ChunkSizes)
SpecItems == InitItems /\ [][NextItems]_vars

\* One question to the chat, every body of RichChatBodies cut into chunks
\* at every byte.
ChatTransport(bodies, sizes) ==
  \E i \in 1..Len(submits) :
    \/ chatResponse(i, bodies)
    \/ chatCatch(i)
    \/ \E size \in sizes : chatRead(i, size)
    \/ chatDone(i)
NextChatStream ==
  \/ \E question \in Questions : submits = <<>> /\ handleSubmit(question)
  \/ ChatTransport(RichChatBodies, 1..MaxBodyLen)
SpecChatStream == InitChat /\ [][NextChatStream]_vars

\* IdeaDetails shown for one idea, every body of RichDetailBodies cut into
\* chunks at every byte.
DetailTransport(bodies, sizes) ==
  \E i \in 1..Len(details) :
    \/ detailsResponse(i, bodies)
    \/ detailsCatch(i)
    \/ \E size \in sizes : detailsRead(i, size)
    \/ detailsDone(i)
NextDetailStream ==
  \/ \E k \in DOMAIN ideaItemFetch : fetchIdeaItemOk(k)
  \/ \E k \in DOMAIN ideaItemFetch : fetchIdeaItemCatch(k)
  \/ DetailTransport(RichDetailBodies, 1..MaxBodyLen)
SpecDetailStream == InitDetails /\ [][NextDetailStream]_vars

\* The chat when every frame arrives whole: a chunk ends after a
\* separator or with the body.  The user asks up to MaxSubmits questions,
\* each after the response to the one before has ended.
MaxSubmits == 2
AtFrameEnd(body, p, sep) ==
  \/ p = Len(body)
  \/ p \in Len(sep)..Len(body) /\ SubSeq(body, p - Len(sep) + 1, p) = sep
NextChatFrames ==
  \/ \E question \in Questions :
       Len(submits) < MaxSubmits /\ handleSubmit(question)
  \/ \E i \in 1..Len(submits) :
       \/ chatResponse(i, RichChatBodies)
       \/ chatCatch(i)
       \/ \E size \in 1..MaxBodyLen :
            /\ AtFrameEnd(submits[i].body, submits[i].pos + size, ChatSeparator)
            /\ chatRead(i, size)
       \/ chatDone(i)
SpecChatFrames == InitChat /\ [][NextChatFrames]_vars

\* IdeaDetails when every frame arrives whole.  The bodies are built from
\* the frames of the press-release and the social-media section: start,
\* content and end of each, in any order and number up to MaxSectionFrames.
MaxSectionFrames == 4
SectionLines ==
  { Frame(<<"{", t, "}">>) : t \in {"p", "q", "o", "u"} }
    \cup { Frame(<<"{", "P", "A", "}">>), Frame(<<"{", "P", "B", "}">>),
           Frame(<<"{", "O", "A", "}">>) }
SectionBodies == Bodies(SectionLines, DetailSeparator, MaxSectionFrames)
MaxSectionLen == MaxSectionFrames * 12
NextDetailFrames ==
  \/ \E k \in DOMAIN ideaItemFetch : fetchIdeaItemOk(k)
  \/ \E k \in DOMAIN ideaItemFetch : fetchIdeaItemCatch(k)
  \/ \E i \in 1..Len(details) :
       \/ detailsResponse(i, SectionBodies)
       \/ detailsCatch(i)
       \/ \E size \in 1..MaxSectionLen :
            /\ AtFrameEnd(details[i].body, details[i].pos + size, DetailSeparator)
            /\ detailsRead(i, size)
       \/ detailsDone(i)
SpecDetailFrames == InitDetails /\ [][NextDetailFrames]_vars

\* IdeaDetails as a component: the route parameters change up to
\* MaxIdeas - 1 times, and each response is one of SmallDetailBodies, read
\* in chunks that end with a frame.
SmallDetailBodies ==
  { Frame(<<"{", "P", "A", "}">>) \o DetailSeparator
      \o Frame(<<"{", "O", "A", "}">>) \o DetailSeparator,
    Frame(<<"{", "R", "1", "}">>) \o DetailSeparator }
NextIdeas ==
  \/ \E ideaTitle \in IdeaTitles : showIdea(ideaTitle)
  \/ \E k \in DOMAIN ideaItemFetch : fetchIdeaItemOk(k)
  \/ \E k \in DOMAIN ideaItemFetch : fetchIdeaItemCatch(k)
  \/ \E i \in 1..Len(details) :
       \/ detailsResponse(i, SmallDetailBodies)
       \/ detailsCatch(i)
       \/ \E size \in 1..MaxBodyLen :
            /\ AtFrameEnd(details[i].body, details[i].pos + size, DetailSeparator)
            /\ detailsRead(i, size)
       \/ detailsDone(i)
SpecIdeas == InitDetails /\ [][NextIdeas]_vars

\* IdeaDetails on responses built from the frames of the review section
\* (two different review lists) and a press-release frame, every body of
\* at most MaxReviewFrames frames read in chunks that end with a frame.
MaxReviewFrames == 3
ReviewLines ==
  { Frame(<<"{", t, "}">>) : t \in {"r", "w"} }
    \cup { Frame(<<"{", "R", "1", "}">>), Frame(<<"{", "R", "2", "}">>),
           Frame(<<"{", "P", "A", "}">>) }
ReviewBodies == Bodies(ReviewLines, DetailSeparator, MaxReviewFrames)
NextReviews ==
  \/ \E k \in DOMAIN ideaItemFetch : fetchIdeaItemOk(k)
  \/ \E k \in DOMAIN ideaItemFetch : fetchIdeaItemCatch(k)
  \/ \E i \in 1..Len(details) :
       \/ detailsResponse(i, ReviewBodies)
       \/ detailsCatch(i)
       \/ \E size \in 1..(MaxReviewFrames * 12) :
            /\ AtFrameEnd(details[i].body, details[i].pos + size, DetailSeparator)
            /\ detailsRead(i, size)
       \/ detailsDone(i)
SpecReviews == InitDetails /\ [][NextReviews]_vars

\* The chat as a component: the user types, submits the form and clicks
\* chips at any time, up to MaxSubmits accepted questions; each response
\* is one of SmallChatBodies (suggested questions and content, content
\* alone, text without prefix), read in chunks that end with a frame.
ChatInputs == {<<>>, <<" ">>, <<"q">>}
SmallChatBodies ==
  { Frame(<<"{", "Q", "A", "}">>) \o ChatSeparator
      \o Frame(JsonContentA) \o ChatSeparator,
    Frame(JsonContentB) \o ChatSeparator,
    JsonContentB \o ChatSeparator }
ChatNetwork ==
  \E i \in 1..Len(submits) :
    \/ chatResponse(i, SmallChatBodies)
    \/ chatCatch(i)
    \/ \E size \in 1..MaxBodyLen :
         /\ AtFrameEnd(submits[i].body, submits[i].pos + size, ChatSeparator)
         /\ chatRead(i, size)
    \/ chatDone(i)
NextChat ==
  \/ \E value \in ChatInputs : setInput(value)
  \/ Len(submits) < MaxSubmits /\ handleSubmit(<<>>)
  \/ \E k \in DOMAIN suggestedQuestions :
       Len(submits) < MaxSubmits /\ handleSuggestedQuestionClick(k)
  \/ ChatNetwork
SpecChat == InitChat /\ [][NextChat]_vars

\* The chat on a transport that does not stall: a request is answered or
\* rejected, and an open stream delivers a chunk, ends or fails.
SpecChatLive == SpecChat /\ WF_vars(ChatNetwork)

\* The four read loops, each on one response.
Init == InitItemStream \/ InitChat \/ InitDetails
Next == NextItemStream \/ NextChatStream \/ NextDetailStream
Spec == Init /\ [][Next]_vars

\* The setCards / setIdeas updater as a function: an open stream of the
\* component hands item objects to it, and the list it is applied to is any
\* list of at most MaxItems item objects.
MaxItems == 2
MaxApplied == 2
ItemObjects ==
  { JSONParse(decode(json)) : json \in {JsonItemA, JsonItemA1, JsonItemB, JsonItemE, JsonEmpty} }
RECURSIVE ListsOf(_, _)
ListsOf(S, n) ==
  IF n = 0 THEN {<<>>}
  ELSE LET shorter == ListsOf(S, n - 1)
       IN shorter \cup { Append(l, x) : l \in shorter, x \in S }
InitAppend ==
  /\ comp \in {"SiteInfo", "Ideator"}
  /\ catalogs = InitialList
  /\ productIdeators = InitialList
  /\ saves = {}
  /\ deletes = {}
  /\ DrawerIdle
  /\ userActions = 0
  /\ console = <<>>
  /\ ChatIdle
  /\ DetailsIdle
  /\ LET c == InitComponent(comp, "c2")
     IN /\ siteName = c.siteName
        /\ prompt = c.prompt
        /\ savedPrompt = c.savedPrompt
        /\ loading = c.loading
        /\ error = c.error
        /\ itemLimit = c.itemLimit
        /\ generateImages = c.generateImages
        /\ fetchedRef = c.fetchedRef
        /\ fetches = <<[c.fetches[1] EXCEPT !.pc = "read"]>>
  /\ cards \in ListsOf(ItemObjects, MaxItems)
\* setCards(prevCards => ...) with the parsed object data.
setCards(data) ==
  /\ fetches[1].pc = "read"
  /\ Len(fetches[1].events) < MaxApplied
  /\ cards' = appendCard(cards, data)
  /\ fetches' = [fetches EXCEPT ![1].events = Append(@, data)]
  /\ UNCHANGED <<appVars, prompt, savedPrompt, loading, error, itemLimit,
                 generateImages, fetchedRef, chatVars, detailVars, console>>
NextAppend == \E data \in ItemObjects : setCards(data)
SpecAppend == InitAppend /\ [][NextAppend]_vars

(***************************************************************************)
(* Properties.                                                             *)
(***************************************************************************)
\* The whole body has been delivered and the stream is still open.
Delivered(f) == f.pc = "read" /\ f.pos = Len(f.body)
\* Invocation i of a list of invocations ends normally in this step.
Ends(list, i) == i \in DOMAIN list /\ list[i].pc = "read" /\ list'[i].pc = "ended"
\* Invocation i of a list of invocations reads a chunk in this step.
Reads(list, i) ==
  i \in DOMAIN list /\ list[i].pc = "read" /\ list'[i].pc = "read"
    /\ list'[i].pos > list[i].pos

\* The accumulators of a stream that has received nothing.
NoChatAcc ==
  [ botMessage |-> [text |-> <<>>, isUser |-> FALSE, sources |-> NoValue,
                    visualization |-> NoValue],
    messages |-> <<Greeting>>, suggestedQuestions |-> <<>>, console |-> <<>>,
    events |-> <<>> ]
NoDetailAcc ==
  [ pressRelease |-> <<>>, socialMediaPost |-> <<>>, customerReviews |-> <<>>,
    loadingPressRelease |-> TRUE, loadingSocialMedia |-> TRUE,
    loadingReviews |-> TRUE, console |-> <<>>, events |-> <<>>,
    pressReleaseBuffer |-> <<>>, socialMediaBuffer |-> <<>> ]
NoItemAcc == [cards |-> <<>>, loading |-> TRUE, console |-> <<>>, events |-> <<>>]

\* The result of an item-list stream whose body arrives as one chunk.
ItemsOfOneChunk(body) ==
  LET r == itemChunk(NoItemAcc, <<>>, body)
  IN [itemFinal(r.acc, r.partialData) EXCEPT !.loading = FALSE]

\* The frames of a text that are followed by a separator, and the rest.
Terminated_(text, sep) == withoutLast(split(text, sep))
Unterminated(text, sep) == pop(split(text, sep))

\* C1: on the chat stream and on the idea-detail stream, however the body
\* is cut into chunks, the events applied once the whole body has been
\* delivered are those applied when the body arrives as a single chunk.
C1_ChunkBoundaryInvariance ==
  /\ \A i \in DOMAIN submits :
       Delivered(submits[i]) =>
         submits[i].events = chatChunk(NoChatAcc, submits[i].body).events
  /\ \A i \in DOMAIN details :
       Delivered(details[i]) =>
         details[i].events = detailChunk(NoDetailAcc, details[i].body).events

\* C2: on an item-list stream, however the body is cut into chunks, the
\* item list and the loading flag after the stream has ended are those
\* obtained when the body arrives as a single chunk.
C2_ItemListChunkInvariance ==
  [][\A i \in DOMAIN fetches :
       Ends(fetches, i) =>
         /\ cards' = ItemsOfOneChunk(fetches[i].body).cards
         /\ loading' = ItemsOfOneChunk(fetches[i].body).loading]_vars

\* C3: once a newer item request has been issued, a chunk arriving on an
\* older stream changes neither the item list nor the loading flag.
C3_StaleStreamIgnored ==
  [][\A i \in DOMAIN fetches :
       Reads(fetches, i) /\ i < Len(fetches) =>
         cards' = cards /\ loading' = loading]_vars

\* C4: an error event on the idea-detail stream ends the stream as failed,
\* sets the error state to the event's error text, and is the last event
\* applied.
C4_ErrorEventTerminal ==
  \A i \in DOMAIN details :
    \A k \in DOMAIN details[i].events :
      details[i].events[k].type = "error" =>
        /\ details[i].pc = "failed"
        /\ error = details[i].events[k].content
        /\ k = Len(details[i].events)

\* C5: at every call site, while the stream is open the events applied are
\* those of the frames already followed by the separator, and the text
\* after the last separator is held back (in partialData where the loop
\* has one).
C5_PartialFrameRetained ==
  /\ \A i \in DOMAIN fetches :
       fetches[i].pc = "read" =>
         /\ fetches[i].events
              = itemLines(NoItemAcc, Terminated_(fetches[i].received, ItemSeparator)).events
         /\ fetches[i].partialData = Unterminated(fetches[i].received, ItemSeparator)
  /\ \A i \in DOMAIN submits :
       submits[i].pc = "read" =>
         submits[i].events
           = chatLines(NoChatAcc, Terminated_(submits[i].received, ChatSeparator)).events
  /\ \A i \in DOMAIN details :
       details[i].pc = "read" =>
         details[i].events
           = detailLines(NoDetailAcc, Terminated_(details[i].received, DetailSeparator)).events

\* The item frames among events, and a list of items without the later
\* ones of a title already seen.
Items(events) == SelectSeq(events, LAMBDA e : e.type # "stop")
RECURSIVE WithoutSeenTitles(_)
WithoutSeenTitles(s) ==
  IF s = <<>> THEN <<>>
  ELSE LET front == SubSeq(s, 1, Len(s) - 1)
           last == s[Len(s)]
       IN IF \E j \in 1..Len(front) : front[j].title = last.title
          THEN WithoutSeenTitles(front)
          ELSE Append(WithoutSeenTitles(front), last)
HasStop(events) == \E k \in DOMAIN events : events[k].type = "stop"

\* C6: the only item request of the component, still the one on display,
\* ends normally, and the user did nothing but save the first prompt of
\* the tab: the item list is then the item frames of the stream in arrival
\* order without the later frames of a title already seen, whenever the
\* parent's prompt-save response arrived.
C6_FinalItemList ==
  [][Ends(fetches, 1) /\ Len(fetches) = 1
       /\ siteName = fetches[1].itemType /\ savedPrompt = fetches[1].prompt
       /\ routes(InitialList)[siteName] = "" /\ userActions = 1
     => cards' = WithoutSeenTitles(Items(fetches'[1].events))]_vars

\* The chunk read in this step by invocation i of list, decoded.
ChunkRead(list, i) == decode(SubSeq(list[i].body, list[i].pos + 1, list'[i].pos))
NonePrefixed(lines) == \A k \in DOMAIN lines : ~startsWith(lines[k], Prefix)

\* C7: text that does not start with 'data: ' produces no event and
\* changes no state: the lines completed by a chunk of an item-list
\* stream, the lines of a chunk of the chat stream, and the leftover of an
\* item-list stream at its end.
C7_UnprefixedTextIgnored ==
  [][/\ \A i \in DOMAIN fetches :
          /\ Reads(fetches, i)
               /\ NonePrefixed(withoutLast(split(
                    fetches[i].partialData \o ChunkRead(fetches, i), ItemSeparator)))
             => /\ cards' = cards
                /\ loading' = loading
                /\ fetches'[i].events = fetches[i].events
          /\ Ends(fetches, i) /\ ~startsWith(fetches[i].partialData, Prefix)
             => /\ cards' = cards
                /\ fetches'[i].events = fetches[i].events
     /\ \A i \in DOMAIN submits :
          Reads(submits, i)
            /\ NonePrefixed(split(ChunkRead(submits, i), ChatSeparator))
          => /\ messages' = messages
             /\ submits'[i].events = submits[i].events]_vars

\* The prefixed frames of a text whose payload is not valid JSON, the
\* prefixed frames whose payload is, and the notifications of a kind.
Malformed(line) ==
  startsWith(line, Prefix) /\ ~JSONParse(slice(line, PrefixLen)).ok
WellFormed(line) ==
  startsWith(line, Prefix) /\ JSONParse(slice(line, PrefixLen)).ok
Notifications(kind) == Len(SelectSeq(console, LAMBDA m : m = kind))
OnlyMalformed(frames) ==
  /\ SelectSeq(frames, Malformed) # <<>>
  /\ SelectSeq(frames, WellFormed) = <<>>

\* C8: a stream whose prefixed frames all carry invalid JSON, once its
\* body has been delivered: one notification per such frame has been
\* logged, no event has been applied, and the owner is in no error state.
C8_MalformedFrameSkipped ==
  /\ \A i \in DOMAIN fetches :
       LET frames == Terminated_(decode(fetches[i].body), ItemSeparator)
       IN Delivered(fetches[i]) /\ OnlyMalformed(frames) =>
            /\ Notifications(WarnIncomplete) = Len(SelectSeq(frames, Malformed))
            /\ fetches[i].events = <<>>
            /\ cards = <<>>
            /\ error = Null
  /\ \A i \in DOMAIN submits :
       LET frames == split(decode(submits[i].body), ChatSeparator)
       IN Delivered(submits[i]) /\ OnlyMalformed(frames) =>
            /\ Notifications(ErrorParsing) = Len(SelectSeq(frames, Malformed))
            /\ submits[i].events = <<>>
            /\ submits[i].pc = "read"

\* C9: an item-list stream whose body ended without a stop frame is
\* complete: loading is false, and the item list holds every item received
\* (an item whose title the list already holds is represented by the
\* earlier one).
C9_BodyEndCompletes ==
  \A i \in DOMAIN fetches :
    fetches[i].pc = "ended" /\ ~HasStop(fetches[i].events) =>
      /\ loading = FALSE
      /\ cards = WithoutSeenTitles(fetches[i].events)
      /\ \A k \in DOMAIN fetches[i].events :
           \E j \in DOMAIN cards : cards[j].title = fetches[i].events[k].title

\* A stream of two items has ended without a stop frame.
C9_Witness ==
  \E i \in DOMAIN fetches :
    /\ fetches[i].pc = "ended"
    /\ ~HasStop(fetches[i].events)
    /\ Len(fetches[i].events) = 2
    /\ Len(cards) = 2

\* C10: once a stop frame has been processed on an item-list stream, no
\* later chunk of that stream and no leftover at its end changes the item
\* list.
C10_StopIsTerminal ==
  [][\A i \in DOMAIN fetches :
       (Reads(fetches, i) \/ Ends(fetches, i)) /\ HasStop(fetches[i].events)
         => cards' = cards]_vars

\* Invocation i of a list of invocations ends in its catch block in this
\* step.
Fails(list, i) ==
  i \in DOMAIN list /\ list[i].pc \in {"fetch", "read"} /\ list'[i].pc = "failed"

\* C11: at each call site a rejected request, a non-ok status or a failed
\* read leaves the owner in an error state: SiteInfo, Ideator and
\* IdeaDetails hold an error text, and what ChatBot shows differs from what
\* it shows when the same stream ends normally at that point.
C11_TransportFailureVisible ==
  [][/\ \A i \in DOMAIN fetches : Fails(fetches, i) => error' # Null
     /\ \A i \in DOMAIN details : Fails(details, i) => error' # Null
     /\ \A i \in DOMAIN submits :
          Fails(submits, i) =>
            <<messages', suggestedQuestions', input', isLoading'>>
              # <<messages, suggestedQuestions, input, FALSE>>]_vars

\* The item object handed to the updater in this step, if any.
Applied(i) == fetches'[i].events[Len(fetches'[i].events)]
Applies(i) ==
  i \in DOMAIN fetches /\ Len(fetches'[i].events) = Len(fetches[i].events) + 1

\* C12: the updater is idempotent on the title: applied to any list, the
\* list it returns is unchanged by a second application of the same item,
\* and an item whose title the list holds leaves the list and the error
\* state as they are.
C12_AppendIdempotent ==
  [][Applies(1) =>
       /\ appendCard(cards', Applied(1)) = cards'
       /\ appendCard(appendCard(cards, Applied(1)), Applied(1))
            = appendCard(cards, Applied(1))
       /\ (\E j \in DOMAIN cards : cards[j].title = Applied(1).title)
            => cards' = cards /\ error' = error]_vars

\* The same item has been applied twice in a row, and the list holds it.
C12_Witness ==
  LET events == fetches[1].events
  IN /\ fetches # <<>>
     /\ Len(events) = 2
     /\ events[1] = events[2]
     /\ \E j \in DOMAIN cards : cards[j] = events[1]

\* C13: in SiteInfo and in Ideator no two entries of the item list have
\* the same title, whatever streams, leftovers, deletions and resets
\* happened.
C13_NoDuplicateTitles ==
  \A j, k \in DOMAIN cards : j # k => cards[j].title # cards[k].title

\* A stream that carried one title twice has ended, and the list holds one
\* entry of that title.
C13_Witness ==
  \E i \in DOMAIN fetches :
    LET events == fetches[i].events
    IN /\ fetches[i].pc = "ended"
       /\ Len(events) = 2
       /\ events[1].title = events[2].title
       /\ Cardinality({j \in DOMAIN cards : cards[j].title = events[1].title}) = 1

\* The objects of the well-formed prefixed frames of a body, in order, and
\* the concatenation of the content fields of those of a type.
RECURSIVE Parsed(_)
Parsed(lines) ==
  IF lines = <<>> THEN <<>>
  ELSE IF WellFormed(Head(lines))
    THEN <<JSONParse(slice(Head(lines), PrefixLen))>> \o Parsed(Tail(lines))
    ELSE Parsed(Tail(lines))
EventsOf(body, sep) == Parsed(split(decode(body), sep))
RECURSIVE ContentOf(_, _)
ContentOf(events, type) ==
  IF events = <<>> THEN <<>>
  ELSE IF Head(events).type = type
    THEN Head(events).content \o ContentOf(Tail(events), type)
    ELSE ContentOf(Tail(events), type)
Last(s) == s[Len(s)]

\* C14: when the frames of a chat response arrive whole and the stream
\* ends, isLoading is false, and the last message is the bot message whose
\* text is the content of the content events of the response, in arrival
\* order.
C14_ChatTextInOrder ==
  [][\A i \in DOMAIN submits :
       Ends(submits, i) =>
         LET events == EventsOf(submits[i].body, ChatSeparator)
         IN /\ isLoading' = FALSE
            /\ events # <<>> =>
                 /\ ~Last(messages').isUser
                 /\ Last(messages').text = ContentOf(events, "content")]_vars

\* A response with two content events has ended: the bot message holds
\* both contents, the first one first.
C14_Witness ==
  \E i \in DOMAIN submits :
    /\ submits[i].pc = "ended"
    /\ i = Len(submits)
    /\ ContentOf(submits[i].events, "content") = <<"A", "B">>
    /\ Last(messages).text = <<"A", "B">>
    /\ ~isLoading

\* The events end a section: a start event, then content events only, then
\* the end event, and no start event of the section after that.
Section(events, start, content, end) ==
  \E s \in DOMAIN events : \E e \in DOMAIN events :
    /\ s < e
    /\ events[s].type = start
    /\ events[e].type = end
    /\ \A k \in (s + 1)..(e - 1) : events[k].type = content
    /\ \A k \in (e + 1)..Len(events) : events[k].type # start

\* C15: when the frames of an idea-detail stream arrive whole, then after
\* press_release_start, any number of press_release events and
\* press_release_end the press-release text is the concatenation, in the
\* order of arrival, of the press_release contents the stream has carried
\* and loadingPressRelease is false; likewise for social_media and
\* loadingSocialMedia.
C15_SectionTextInOrder ==
  \A i \in 1..Len(details) :
    /\ Section(details[i].events, "press_release_start", "press_release",
               "press_release_end")
         => /\ pressRelease = ContentOf(details[i].events, "press_release")
            /\ loadingPressRelease = FALSE
    /\ Section(details[i].events, "social_media_start", "social_media",
               "social_media_end")
         => /\ socialMediaPost = ContentOf(details[i].events, "social_media")
            /\ loadingSocialMedia = FALSE
C15_Witness ==
  \E i \in 1..Len(details) :
    /\ details[i].pc = "ended"
    /\ [k \in 1..Len(details[i].events) |-> details[i].events[k].type]
         = <<"press_release_start", "press_release", "press_release",
             "press_release_end">>
    /\ pressRelease = <<"A", "B">>
    /\ loadingPressRelease = FALSE

\* The titles of a list.
Titles(list) == { list[j].title : j \in DOMAIN list }

\* C16: when an item-list stream ends with a non-empty leftover, one parse
\* of it is attempted (at most one message is logged); a non-stop object is
\* appended unless its title is in the list, anything else leaves the list
\* as it was; the leftover is discarded, loading is false and the error
\* state is not entered.
C16_FinalFragment ==
  [][\A i \in DOMAIN fetches :
       Ends(fetches, i) /\ fetches[i].partialData # <<>> =>
         LET data == JSONParse(slice(fetches[i].partialData, PrefixLen))
         IN /\ IF data.ok /\ data.type # "stop"
               THEN IF data.title \in Titles(cards)
                    THEN cards' = cards /\ console' = console
                    ELSE cards' = Append(cards, data) /\ console' = console
               ELSE /\ cards' = cards
                    /\ console' = IF data.ok THEN console
                                  ELSE Append(console, ErrorFinal)
            /\ fetches'[i].partialData = <<>>
            /\ loading' = FALSE
            /\ error' = error]_vars

\* A stream has ended after an item was appended and a leftover failed to
\* parse: the list is kept, loading is false and there is no error.
C16_Witness ==
  \E i \in DOMAIN fetches :
    /\ fetches[i].pc = "ended"
    /\ Len(cards) = 1
    /\ \E k \in DOMAIN console : console[k] = ErrorFinal
    /\ loading = FALSE
    /\ error = Null

\* C17: whenever IdeaDetails holds the idea item of an idea, a detail
\* stream for that idea has been requested, and as long as no stream for
\* that idea has delivered an event, the press-release text, the
\* social-media text and the review list are empty.
C17_ResetPerIdea ==
  ideaItem # NoIdeaItem =>
    /\ \E i \in DOMAIN details : details[i].title = ideaItem.title
    /\ (\A i \in DOMAIN details :
          details[i].title = ideaItem.title => details[i].events = <<>>)
         => /\ pressRelease = <<>>
            /\ socialMediaPost = <<>>
            /\ customerReviews = <<>>

\* Invocation i of a list of invocations fails while its body is read.
ReadFails(list, i) ==
  i \in DOMAIN list /\ list[i].pc = "read" /\ list'[i].pc = "failed"

\* C18: a read that fails in the middle of a stream of SiteInfo, Ideator or
\* IdeaDetails leaves what was accumulated as it was: the item list, the
\* press-release text, the social-media text and the review list.
C18_ReadFailureKeepsState ==
  [][/\ \A i \in DOMAIN fetches : ReadFails(fetches, i) => cards' = cards
     /\ \A i \in DOMAIN details :
          ReadFails(details, i) =>
            /\ pressRelease' = pressRelease
            /\ socialMediaPost' = socialMediaPost
            /\ customerReviews' = customerReviews]_vars

\* An item-list stream has failed after it had delivered an item, and the
\* item is in the list.
C18_Witness ==
  \E i \in DOMAIN fetches :
    /\ fetches[i].pc = "failed"
    /\ error = ReadError
    /\ fetches[i].events # <<>>
    /\ cards # <<>>

\* Invocation i of handleSubmit reads, in this step, a chunk whose only
\* event is a stop event.
ReadsStop(i) ==
  /\ Reads(submits, i)
  /\ Len(submits'[i].events) = Len(submits[i].events) + 1
  /\ Last(submits'[i].events).type = "stop"

\* C19: a stop event of the chat changes nothing that is shown: the message
\* list, the text, sources and visualization of the answer and the
\* suggestion list are after it what they were before it, also when it is
\* the first event of the response.
C19_StopChangesNothing ==
  [][\A i \in DOMAIN submits :
       ReadsStop(i) =>
         /\ messages' = messages
         /\ submits'[i].botMessage = submits[i].botMessage
         /\ suggestedQuestions' = suggestedQuestions]_vars

\* The content of the last event of a type, or the empty list.
RECURSIVE LastContentOf(_, _)
LastContentOf(events, type) ==
  IF events = <<>> THEN <<>>
  ELSE IF Last(events).type = type THEN Last(events).content
  ELSE LastContentOf(SubSeq(events, 1, Len(events) - 1), type)
Carries(events, type) == \E k \in DOMAIN events : events[k].type = type

\* C20: the suggestion list of the chat is empty after a question has been
\* accepted; a read that dispatches suggested_questions events leaves it
\* equal to the content of the last of them, and any other read leaves it
\* as it was; when the response has ended it is the content of the last
\* suggested_questions frame of the response, or empty if there was none.
C20_SuggestionList ==
  [][/\ Len(submits') > Len(submits) => suggestedQuestions' = <<>>
     /\ \A i \in DOMAIN submits :
          /\ Reads(submits, i) =>
               LET new == SubSeq(submits'[i].events, Len(submits[i].events) + 1,
                                 Len(submits'[i].events))
               IN suggestedQuestions' =
                    IF Carries(new, "suggested_questions")
                    THEN LastContentOf(new, "suggested_questions")
                    ELSE suggestedQuestions
          /\ Ends(submits, i) =>
               suggestedQuestions' =
                 LastContentOf(EventsOf(submits[i].body, ChatSeparator),
                               "suggested_questions")]_vars

\* C21: a customer_reviews event replaces the review list: once the stream
\* has dispatched such an event, the list is the content of the last one,
\* whatever the list was before, so the same event twice gives what it
\* gives once.
C21_ReviewsReplaced ==
  \A i \in DOMAIN details :
    Carries(details[i].events, "customer_reviews") =>
      customerReviews = LastContentOf(details[i].events, "customer_reviews")

\* A stream of three review events has ended, the second and third the
\* same and different from the first, and the list is that of the third.
C21_Witness ==
  \E i \in DOMAIN details :
    /\ details[i].pc = "ended"
    /\ [k \in 1..Len(details[i].events) |->
          <<details[i].events[k].type, details[i].events[k].content>>]
         = << <<"customer_reviews", <<"1">> >>, <<"customer_reviews", <<"2">> >>,
              <<"customer_reviews", <<"2">> >> >>
    /\ customerReviews = <<"2">>

\* C22: whenever SiteInfo is given another siteName and the prompt saved
\* for it is not empty, also when it is the prompt text of the catalog
\* shown before, a request for the items of the new item type is issued
\* and the item list is empty.
C22_FetchOnSiteNameChange ==
  [][comp = "SiteInfo" /\ siteName' # siteName /\ savedPrompt' # "" =>
       /\ Len(fetches') = Len(fetches) + 1
       /\ Last(fetches').pc = "fetch"
       /\ Last(fetches').itemType = siteName'
       /\ cards' = <<>>]_vars

\* C23: while the stream of the item request issued last is open and has
\* not delivered a stop frame, loading is true.
C23_LoadingWhileLatestOpen ==
  fetches # <<>> /\ Last(fetches).pc = "read" /\ ~HasStop(Last(fetches).events)
    => loading = TRUE

\* C24: when the response to a DELETE arrives, an ok response removes from
\* the list the cards of the confirmed title and no other card, also not
\* those appended while the request was in flight; a rejected or non-ok
\* DELETE leaves the list as it is.
C24_DeleteRemovesOnlyConfirmed ==
  [][\A req \in deletes \ deletes' :
       IF console' = console
       THEN cards' = SelectSeq(cards, LAMBDA card : card.title # req.title)
       ELSE cards' = cards]_vars

\* The user messages of a message list.
UserMessages(list) == SelectSeq(list, LAMBDA m : m.isUser)
\* The invocations of handleSubmit whose request or stream is open.
OpenSubmits == { i \in DOMAIN submits : submits[i].pc \in {"fetch", "read"} }

\* C25: no question that is blank is ever sent, while a response is loading
\* no step sends a request, adds a user message or changes the input, and
\* at most one chat request or stream is open at any time.
C25_SubmitGuard ==
  /\ [](/\ Cardinality(OpenSubmits) <= 1
        /\ \A k \in DOMAIN messages :
             messages[k].isUser => trimLeft(trimRight(messages[k].text)) # <<>>)
  /\ [][isLoading =>
          /\ Len(submits') = Len(submits)
          /\ UserMessages(messages') = UserMessages(messages)
          /\ input' = input]_vars

\* A second question has been accepted, its response is loading, and chips
\* of suggested questions are shown.
C25_Witness ==
  /\ isLoading
  /\ Len(submits) = 2
  /\ OpenSubmits = {2}
  /\ suggestedQuestions # <<>>

\* The position in the message list of the user message of submission i.
UserPositions == { k \in DOMAIN messages : messages[k].isUser }
UserPosition(i) ==
  CHOOSE k \in UserPositions : Cardinality({ j \in UserPositions : j <= k }) = i

\* C26: the message list starts with the greeting and holds one user
\* message for each accepted submission; a bot message other than the
\* greeting follows a user message directly, and the user message of a
\* submission is followed by a bot message exactly when its response has
\* yielded a parsed event; the only message a step replaces is the last
\* one, when it is the bot answer to the submission made last.
C26_MessageListStructure ==
  /\ [](/\ messages[1] = Greeting
        /\ Cardinality(UserPositions) = Len(submits)
        /\ \A k \in 2..Len(messages) :
             ~messages[k].isUser => messages[k - 1].isUser
        /\ \A i \in DOMAIN submits :
             (/\ UserPosition(i) < Len(messages)
              /\ ~messages[UserPosition(i) + 1].isUser)
               <=> submits[i].events # <<>>)
  /\ [][\A k \in DOMAIN messages :
          /\ k \in DOMAIN messages'
          /\ messages'[k] # messages[k] =>
               /\ k = Len(messages)
               /\ k > 1
               /\ ~messages[k].isUser
               /\ Reads(submits, Len(submits))]_vars

\* Two responses have ended, the first without a parsed event and the
\* second with one: greeting, question, question, answer.
C26_Witness ==
  /\ Len(submits) = 2
  /\ submits[1].pc = "ended" /\ submits[1].events = <<>>
  /\ submits[2].pc = "ended" /\ submits[2].events # <<>>
  /\ [k \in DOMAIN messages |-> messages[k].isUser] = <<FALSE, TRUE, TRUE, FALSE>>

\* C27: an accepted submission sets isLoading; on a transport that does
\* not stall isLoading becomes false again, whether the stream ends, the
\* request is rejected or a read fails; a failed read leaves the message
\* list, with the text accumulated so far, as it was.
C27_LoadingEnds ==
  /\ [][Len(submits') > Len(submits) => isLoading']_vars
  /\ (isLoading ~> ~isLoading)
  /\ [][\A i \in DOMAIN submits : ReadFails(submits, i) => messages' = messages]_vars

\* A read has failed after the answer had received text: loading is over
\* and the text is in the list.
C27_Witness ==
  \E i \in DOMAIN submits :
    /\ submits[i].pc = "failed"
    /\ Carries(submits[i].events, "content")
    /\ ~isLoading
    /\ ~Last(messages).isUser
    /\ Last(messages).text = ContentOf(submits[i].events, "content")

\* C28: after an idea-detail stream has ended normally, the three loading
\* flags of IdeaDetails are false.
C28_DetailLoadingEnds ==
  \A i \in DOMAIN details :
    details[i].pc = "ended" =>
      /\ loadingPressRelease = FALSE
      /\ loadingSocialMedia = FALSE
      /\ loadingReviews = FALSE

\* C29: the step in which an item request ends or fails leaves loading
\* false; error is set only when a request has failed; loading is never
\* true while error is set.
C29_RequestLifecycle ==
  /\ [](/\ error # Null => \E i \in DOMAIN fetches : fetches[i].pc = "failed"
        /\ ~(loading /\ error # Null))
  /\ [][\A i \in DOMAIN fetches :
          Ends(fetches, i) \/ Fails(fetches, i) => loading' = FALSE]_vars

\* A request was answered with a status that is not ok: the error is set
\* and loading is over.
C29_Witness ==
  \E i \in DOMAIN fetches :
    /\ fetches[i].pc = "failed"
    /\ error = FailedToFetch
    /\ loading = FALSE

Target ==
  [ press_release |-> "pressRelease", social_media |-> "socialMediaPost",
    customer_reviews |-> "customerReviews",
    press_release_start |-> "loadingPressRelease",
    press_release_end |-> "loadingPressRelease",
    social_media_start |-> "loadingSocialMedia",
    social_media_end |-> "loadingSocialMedia",
    customer_reviews_start |-> "loadingReviews",
    customer_reviews_end |-> "loadingReviews" ]
DetailShown ==
  [ pressRelease |-> pressRelease, socialMediaPost |-> socialMediaPost,
    customerReviews |-> customerReviews,
    loadingPressRelease |-> loadingPressRelease,
    loadingSocialMedia |-> loadingSocialMedia,
    loadingReviews |-> loadingReviews, ideaItem |-> ideaItem, error |-> error ]

\* C31: the read of a chunk that dispatches one event changes, of what
\* IdeaDetails shows, at most the text, list or loading flag of the section
\* the event belongs to; a stop event and an event of an unknown type
\* change nothing.
C31_EventIndependence ==
  [][\A i \in DOMAIN details :
       /\ Reads(details, i)
       /\ Len(details'[i].events) = Len(details[i].events) + 1
       => LET type == Last(details'[i].events).type
          IN \A f \in DOMAIN DetailShown :
               (type \in DOMAIN Target => f # Target[type])
                 => DetailShown'[f] = DetailShown[f]]_vars

\* A stream of a social_media and a press_release event has ended: each
\* text holds the content of its event and no loading flag has changed.
C31_Witness ==
  \E i \in DOMAIN details :
    /\ details[i].pc = "ended"
    /\ [k \in DOMAIN details[i].events |-> details[i].events[k].type]
         = <<"social_media", "press_release">>
    /\ socialMediaPost = <<"A">>
    /\ pressRelease # <<>>
    /\ loadingPressRelease /\ loadingSocialMedia /\ loadingReviews

(***************************************************************************)
(* App with its drawer: the user adds and deletes tabs and saves prompts;  *)
(* the server answers each POST with an entry of ServerEntries.  The item  *)
(* requests of the mounted component stay unanswered.                      *)
(***************************************************************************)
NameInputs == {<<" ">>, <<"c", "1">>, <<"c", "2">>}
ServerEntries == [id : Tabs, prompt : {"", "p1"}]
InitApp == InitItems \/ InitChat
NextApp ==
  \/ \E name \in NameInputs : handleAddCatalog(name)
  \/ \E name \in NameInputs : handleAddProductIdeator(name)
  \/ handleDeleteTabConfirm
  \/ \E value \in PromptInputs : handleSave(value)
  \/ \E k \in DOMAIN requests, newCatalog \in ServerEntries :
       addCatalogResponse(k, newCatalog)
  \/ \E k \in DOMAIN requests, newIdeator \in ServerEntries :
       addProductIdeatorResponse(k, newIdeator)
  \/ \E k \in DOMAIN requests : deleteTabResponse(k)
  \/ \E k \in DOMAIN requests : handleTabDelete(k)
  \/ \E k \in DOMAIN requests : handleIdeatorDelete(k)
  \/ \E k \in DOMAIN requests :
       \E message \in CatchMessages[requests[k].handler] :
         requestCatch(k, message)
  \/ \E req \in saves : handleCatalogPromptSave(req)
  \/ \E req \in saves : handleCatalogPromptSaveFailed(req)
SpecApp == InitApp /\ [][NextApp]_vars

\* after is before without exactly its entries with the id: the other
\* entries are kept, each once and in their order.
Removes(before, after, id) ==
  LET kept == {j \in DOMAIN before : before[j].id # id}
  IN /\ DOMAIN after = 1..Cardinality(kept)
     /\ \A j \in kept : after[Cardinality({i \in kept : i <= j})] = before[j]

\* In this step the k-th request of App in flight is answered ok.
AnsweredOk(k, handler) ==
  /\ requests[k].handler = handler
  /\ requests' = answered(k)
  /\ console' = console

\* C32: a step in which a handler of App logs from its catch block, that
\* is a create, update or delete request was rejected or answered with a
\* non-ok status, leaves catalogs and productIdeators as they were; a
\* step in which the DELETE of handleTabDelete is answered ok removes from
\* catalogs exactly the entries with the id of the request and leaves
\* productIdeators as it was, and likewise handleIdeatorDelete removes them
\* from productIdeators and leaves catalogs as it was.
C32_FailureKeepsListsDeleteFilters ==
  [][/\ Len(console') > Len(console)
          => catalogs' = catalogs /\ productIdeators' = productIdeators
     /\ \A k \in DOMAIN requests :
          /\ AnsweredOk(k, "handleTabDelete")
               => /\ Removes(catalogs, catalogs', requests[k].id)
                  /\ productIdeators' = productIdeators
          /\ AnsweredOk(k, "handleIdeatorDelete")
               => /\ Removes(productIdeators, productIdeators', requests[k].id)
                  /\ catalogs' = catalogs]_vars

\* The POST of handleAddCatalog failed and the DELETE of handleTabDelete for
\* c1 was answered ok: the entry c2 is left, the ideators are those of the
\* start, and the ChatBot is shown.
C32_Witness ==
  /\ comp = "ChatBot"
  /\ catalogs = <<[id |-> "c2", prompt |-> "p1"]>>
  /\ productIdeators = InitialList
  /\ requests = <<>>
  /\ console = <<"Error adding catalog:">>
====
